---- MODULE Spec2Model ----
(***************************************************************************)
(* Model of the resume-structure classifier and merge pass of the PDF      *)
(* conversion scripts (server/pdf_converter.py, pdf_to_word_advanced.py,   *)
(* pdf_to_html_advanced.py), of convert_pdf_to_word with its extractors,   *)
(* of parse_page_range (pdf_page_manager.py) and of the command-line       *)
(* entry points of pdf_to_word_advanced.py, word_to_pdf_converter.py and   *)
(* rotate_pdf_converter.py.                                                *)
(*                                                                         *)
(* Text is a TLA+ string over ASCII.  The non-ASCII glyphs of the source   *)
(* are written with one ASCII stand-in each, none of which is a letter, a  *)
(* digit or white space (exactly as the glyphs themselves):                *)
(*     "~" is U+2022 BULLET            "^" is U+25AA BLACK SMALL SQUARE    *)
(*     "$" is U+25AB WHITE SMALL SQ.   "|" is U+25E6 WHITE BULLET          *)
(*     ">" is U+2023 TRIANGULAR BULLET "=" is U+2043 HYPHEN BULLET         *)
(*     "+" is U+2014 EM DASH           "#" is U+00B0 DEGREE SIGN           *)
(***************************************************************************)
EXTENDS Integers, Sequences, FiniteSets, TLC

VARIABLES
    line,               \* classifier input: the trimmed line text
    is_first_line,      \* classifier input: the first-line flag
    res_resume,         \* result of classify_resume_line, "pending" before the call
    res_word,           \* result of classify_line_type
    res_html,           \* result of classify_resume_line_for_html
    res_level,          \* result of get_heading_level, None before the call
    pc,                 \* position in extract_text_with_pdfplumber
    page_num,           \* enumerate(pdf.pages) index
    i,                  \* enumerate(lines) index within the page
    structured_content, \* the list built by the extraction loop
    merged,             \* the list merge_related_content returns (<<>> before the return)
    spans,              \* ghost: input positions covered by each node of merged
    src_pos,            \* ghost: page_num and i of the line behind each entry
    page_range_str,     \* parse_page_range input: the page-range string
    total_pages,        \* parse_page_range input: the page count
    range_pc,           \* "idle", "call", then "returned" or "raised"
    pages,              \* the list parse_page_range returns
    pdf,                \* convert_pdf_to_word input: the file as its collaborators see it
    conv_pc,            \* position in convert_pdf_to_word ("idle" when not running)
    conv_content,       \* its local structured_content (None before the first extraction)
    meaningful_content, \* its local meaningful_content
    result,             \* the dict convert_pdf_to_word returns
    calls,              \* collaborators called so far, in order
    written,            \* the content list of the saved document, <<>> when none is saved
    proc,               \* one invocation of a converter script: argv and what the libraries do
    script_pc,          \* "idle", "main", then "exited"
    stdout,             \* the JSON objects printed on standard output, in order
    exit_status,        \* the process exit status, NotExited while running
    cur_line,           \* paragraph-break deciders: the line_data argument
    accum,              \* paragraph-break deciders: the current_paragraph argument
    decided,            \* the deciders that have returned
    breaks,             \* the deciders that returned a true value
    page_chars,         \* extract_formatted_lines input: the character records of a page
    fl_pc,              \* "idle", "call", then "returned"
    sorted_lines,       \* the list extract_formatted_lines returns
    line_members,       \* ghost: for each returned line, the input positions of its characters, in line order
    rm_call,            \* remove_pdf_pages input: what PyMuPDF does, the page count and the pages_to_remove string
    rm_pc,              \* "idle", "call", then "returned" or "raised"
    rm_outcome,         \* what remove_pdf_pages raises or returns, and the page list it saves
    rot_call,           \* rotate_pdf_professional input: what PyMuPDF does, the rotation of each page, the angle and the page numbers
    rot_pc,             \* "idle", "call", then "returned"
    rot_outcome,        \* what rotate_pdf_professional returns and prints, and the pages it rotates
    rot_saved,          \* the rotation of each page of the saved document, None when nothing is saved
    ed_call,            \* edit_pdf_comprehensive input: what PyMuPDF does, the page count and the edit_operations list
    ed_pc,              \* "idle", "open", the group being applied, "save", then "returned" or "raised"
    ed_k,               \* position of the next edit in the list of the group being applied
    ed_drawn,           \* what has been drawn on the document so far, in order: input position, page and colour of each edit
    operations_applied, \* the counter of edit_pdf_comprehensive
    ed_outcome          \* what edit_pdf_comprehensive raises or returns, and the drawings of the saved document

vars == <<line, is_first_line, res_resume, res_word, res_html, res_level,
          pc, page_num, i, structured_content, merged, spans, src_pos,
          page_range_str, total_pages, range_pc, pages, pdf, conv_pc,
          conv_content, meaningful_content, result, calls, written, proc,
          script_pc, stdout, exit_status, cur_line, accum, decided, breaks,
          page_chars, fl_pc, sorted_lines, line_members, rm_call, rm_pc,
          rm_outcome, rot_call, rot_pc, rot_outcome, rot_saved, ed_call,
          ed_pc, ed_k, ed_drawn, operations_applied, ed_outcome>>

classVars == <<line, is_first_line, res_resume, res_word, res_html,
               res_level>>
pipeVars == <<pc, page_num, i, structured_content, merged, spans, src_pos>>
rangeVars == <<page_range_str, total_pages, range_pc, pages>>
convVars == <<pdf, conv_pc, conv_content, meaningful_content, result,
              calls, written>>
scriptVars == <<proc, script_pc, stdout, exit_status>>
breakVars == <<cur_line, accum, decided, breaks>>
formatVars == <<page_chars, fl_pc, sorted_lines, line_members>>
removeVars == <<rm_call, rm_pc, rm_outcome>>
rotateVars == <<rot_call, rot_pc, rot_outcome, rot_saved>>
editVars == <<ed_call, ed_pc, ed_k, ed_drawn, operations_applied,
              ed_outcome>>
\* the variables of the other scripts, which the classifier and the
\* extraction loop leave alone
toolVars == <<rangeVars, convVars, scriptVars, breakVars, formatVars,
              removeVars, rotateVars, editVars>>
\* for each script, the variables of everything else
rangeOther == <<classVars, pipeVars, convVars, scriptVars, breakVars,
                formatVars, removeVars, rotateVars, editVars>>
convOther == <<classVars, pipeVars, rangeVars, scriptVars, breakVars,
               formatVars, removeVars, rotateVars, editVars>>
scriptOther == <<classVars, pipeVars, rangeVars, convVars, breakVars,
                 formatVars, removeVars, rotateVars, editVars>>
breakOther == <<classVars, pipeVars, rangeVars, convVars, scriptVars,
                formatVars, removeVars, rotateVars, editVars>>
formatOther == <<classVars, pipeVars, rangeVars, convVars, scriptVars,
                 breakVars, removeVars, rotateVars, editVars>>
removeOther == <<classVars, pipeVars, rangeVars, convVars, scriptVars,
                 breakVars, formatVars, rotateVars, editVars>>
rotateOther == <<classVars, pipeVars, rangeVars, convVars, scriptVars,
                 breakVars, formatVars, removeVars, editVars>>
editOther == <<classVars, pipeVars, rangeVars, convVars, scriptVars,
               breakVars, formatVars, removeVars, rotateVars>>

-----------------------------------------------------------------------------
(* Python str primitives                                                   *)

UpperChars == "ABCDEFGHIJKLMNOPQRSTUVWXYZ"
LowerChars == "abcdefghijklmnopqrstuvwxyz"
DigitChars == "0123456789"

\* s[k] as a one-character string, "" outside the string
Ch(s, k) == IF k \in 1..Len(s) THEN SubSeq(s, k, k) ELSE ""

\* the set of characters of s
CharsOf(s) == {Ch(s, k) : k \in 1..Len(s)}

UpperSet == CharsOf(UpperChars)
LowerSet == CharsOf(LowerChars)
DigitSet == CharsOf(DigitChars)

isupper(c) == c \in UpperSet
islower(c) == c \in LowerSet
isalphaChar(c) == isupper(c) \/ islower(c)
isdigit(c) == c \in DigitSet
iscased(c) == isalphaChar(c)
isspace(c) == c = " "
\* \w of the re module
isword(c) == isalphaChar(c) \/ isdigit(c) \/ c = "_"

\* the lowercase letter of each uppercase letter
LowerOf ==
    [c \in UpperSet |->
        Ch(LowerChars, CHOOSE k \in 1..Len(UpperChars) : Ch(UpperChars, k) = c)]

lowerChar(c) == IF isupper(c) THEN LowerOf[c] ELSE c

\* s.lower(), character by character (evaluated by halves)
RECURSIVE lower(_)
lower(s) ==
    IF s = "" THEN ""
    ELSE IF Len(s) = 1 THEN lowerChar(s)
    ELSE LET h == Len(s) \div 2
         IN  lower(SubSeq(s, 1, h)) \o lower(SubSeq(s, h + 1, Len(s)))

\* sub in s
Contains(s, sub) ==
    \E k \in 1..(Len(s) - Len(sub) + 1) : SubSeq(s, k, k + Len(sub) - 1) = sub

startswith(s, prefix) == Len(s) >= Len(prefix) /\ SubSeq(s, 1, Len(prefix)) = prefix

endswith(s, suffix) ==
    Len(s) >= Len(suffix) /\ SubSeq(s, Len(s) - Len(suffix) + 1, Len(s)) = suffix

RECURSIVE lstrip(_)
lstrip(s) == IF s # "" /\ isspace(Ch(s, 1)) THEN lstrip(Tail(s)) ELSE s

RECURSIVE rstrip(_)
rstrip(s) ==
    IF s # "" /\ isspace(Ch(s, Len(s))) THEN rstrip(SubSeq(s, 1, Len(s) - 1)) ELSE s

strip(s) == rstrip(lstrip(s))

\* length of the leading run of non-space characters of s (s starts with one)
FirstWordLen(s) ==
    CHOOSE n \in 1..Len(s) :
        /\ n = Len(s) \/ isspace(Ch(s, n + 1))
        /\ \A m \in 1..n : ~isspace(Ch(s, m))

\* s.split(): the list of maximal runs of non-space characters
RECURSIVE split(_)
split(s) ==
    IF s = "" THEN <<>>
    ELSE IF isspace(Ch(s, 1)) THEN split(lstrip(s))
    ELSE LET n == FirstWordLen(s)
         IN  <<SubSeq(s, 1, n)>> \o split(SubSeq(s, n + 1, Len(s)))

\* s.replace(old, '') for a single character old (evaluated by halves)
RECURSIVE removeChar(_, _)
removeChar(s, old) ==
    IF s = "" THEN ""
    ELSE IF Len(s) = 1 THEN (IF s = old THEN "" ELSE s)
    ELSE LET h == Len(s) \div 2
         IN  removeChar(SubSeq(s, 1, h), old) \o removeChar(SubSeq(s, h + 1, Len(s)), old)

isalpha(s) == s # "" /\ \A k \in 1..Len(s) : isalphaChar(Ch(s, k))

\* str.istitle(): uppercase only after uncased, lowercase only after cased,
\* and at least one cased character
istitle(s) ==
    /\ \E k \in 1..Len(s) : iscased(Ch(s, k))
    /\ \A k \in 1..Len(s) :
        /\ isupper(Ch(s, k)) => (k = 1 \/ ~iscased(Ch(s, k - 1)))
        /\ islower(Ch(s, k)) => (k > 1 /\ iscased(Ch(s, k - 1)))

anyDigit(s) == \E k \in 1..Len(s) : isdigit(Ch(s, k))

\* any(word.lower() in wordlist for word in words)
anyWordIn(words, wordlist) == \E k \in 1..Len(words) : lower(words[k]) \in wordlist

\* any(p in s for p in patterns)
anyIn(patterns, s) == \E p \in patterns : Contains(s, p)

\* ' '.join(list)
RECURSIVE join(_)
join(list) ==
    IF list = <<>> THEN ""
    ELSE IF Len(list) = 1 THEN list[1]
    ELSE list[1] \o " " \o join(Tail(list))

digitChar(d) == Ch(DigitChars, d + 1)

\* str(n) for n >= 0
RECURSIVE str(_)
str(n) == IF n < 10 THEN digitChar(n) ELSE str(n \div 10) \o digitChar(n % 10)

-----------------------------------------------------------------------------
(* Regular expressions of the classifiers (re.search / re.match)           *)

\* \b at the gap before position k
WordBoundary(s, k) == isword(Ch(s, k - 1)) # isword(Ch(s, k))

\* \d{n} at position k
DigitsAt(s, k, n) == k + n - 1 <= Len(s) /\ \A m \in k..(k + n - 1) : isdigit(Ch(s, m))

\* \s{n} at position k
SpacesAt(s, k, n) == k + n - 1 <= Len(s) /\ \A m \in k..(k + n - 1) : isspace(Ch(s, m))

\* re.search(r'\b\d{3}[-.]?\d{3}[-.]?\d{4}\b', s)
SearchPhone(s) ==
    \E k \in 1..Len(s) : \E s1 \in {0, 1}, s2 \in {0, 1} :
        /\ WordBoundary(s, k)
        /\ DigitsAt(s, k, 3)
        /\ s1 = 1 => Ch(s, k + 3) \in {"-", "."}
        /\ DigitsAt(s, k + 3 + s1, 3)
        /\ s2 = 1 => Ch(s, k + 6 + s1) \in {"-", "."}
        /\ DigitsAt(s, k + 6 + s1 + s2, 4)
        /\ WordBoundary(s, k + 10 + s1 + s2)

Months == {"Jan", "Feb", "Mar", "Apr", "May", "Jun",
           "Jul", "Aug", "Sep", "Oct", "Nov", "Dec"}

\* re.search(r'\b(Jan|...|Dec)\s*\d{4}', s)
SearchMonthYear(s) ==
    \E k \in 1..Len(s) :
        /\ WordBoundary(s, k)
        /\ k + 2 <= Len(s)
        /\ SubSeq(s, k, k + 2) \in Months
        /\ \E n \in 0..Len(s) : SpacesAt(s, k + 3, n) /\ DigitsAt(s, k + 3 + n, 4)

\* re.search(r'\d{4}\s*-\s*\d{4}', s)
SearchYearRange(s) ==
    \E k \in 1..Len(s) :
        /\ DigitsAt(s, k, 4)
        /\ \E n \in 0..Len(s), m \in 0..Len(s) :
            /\ SpacesAt(s, k + 4, n)
            /\ Ch(s, k + 4 + n) = "-"
            /\ SpacesAt(s, k + 5 + n, m)
            /\ DigitsAt(s, k + 5 + n + m, 4)

\* re.search(r'\b(Jan|...|Dec)\s*\d{4}|Present|\d{4}\s*-\s*\d{4}', s)
SearchJobDate(s) == SearchMonthYear(s) \/ Contains(s, "Present") \/ SearchYearRange(s)

\* re.match(r'^\s*[<bullet glyphs>-]\s*', s)
MatchBullet(s) == Ch(lstrip(s), 1) \in {"~", "^", "$", "|", ">", "=", "-"}

\* re.match(r'^\s*\d+[\.)]\s*', s)
MatchNumbered(s) ==
    LET t == lstrip(s)
    IN  \E n \in 1..Len(t) : DigitsAt(t, 1, n) /\ Ch(t, n + 1) \in {".", ")"}

\* detect_numbered_item of pdf_converter.py: re.match of any of the six
\* numbering patterns on the stripped text
detect_numbered_item(text) ==
    LET text_stripped == strip(text)
        DigitsThen(k, c) ==
            \E n \in 1..Len(text_stripped) :
                DigitsAt(text_stripped, k, n) /\ Ch(text_stripped, k + n) = c
    IN  \/ DigitsThen(1, ".")
        \/ DigitsThen(1, ")")
        \/ Ch(text_stripped, 1) = "(" /\ DigitsThen(2, ")")
        \/ \E n \in 1..Len(text_stripped) :
               /\ DigitsAt(text_stripped, 1, n)
               /\ Ch(text_stripped, n + 1) = "."
               /\ isdigit(Ch(text_stripped, n + 2))
        \/ isalphaChar(Ch(text_stripped, 1)) /\ Ch(text_stripped, 2) = "."
        \/ isalphaChar(Ch(text_stripped, 1)) /\ Ch(text_stripped, 2) = ")"

-----------------------------------------------------------------------------
(* The three classifier variants                                           *)

\* Python None where an integer heading level is optional (levels are 1 and 2)
None == 0

\* dict.get(key) with the default None
Get(dict, key) == IF key \in DOMAIN dict THEN dict[key] ELSE None

\* str(year) in s for some year in range(lo, hi)
anyYearIn(s, lo, hi) == \E year \in lo..(hi - 1) : Contains(s, str(year))

\* pdf_converter.py, classify_resume_line: the condition of each rule
\* mutant: the positional clause is dropped
ResumeIsName_pattern_only(l, words, first) ==
    /\ Len(words) <= 3
    /\ isalpha(removeChar(removeChar(l, " "), "."))
    /\ istitle(l)
    /\ ~anyWordIn(words, {"experience", "education", "skills", "summary"})

ResumeIsName(l, words, first) ==
    \/ first
    \/ /\ Len(words) <= 3
       /\ isalpha(removeChar(removeChar(l, " "), "."))
       /\ istitle(l)
       /\ ~anyWordIn(words, {"experience", "education", "skills", "summary"})

\* mutant: the "@" indicator is missing from the list
ResumeIsContact_no_at(l, low, words) ==
    \/ anyIn({"http", "linkedin", "behance"}, low)
    \/ (anyDigit(l) /\ Len(words) <= 8)

ResumeIsContact(l, low, words) ==
    \/ anyIn({"@", "http", "linkedin", "behance"}, low)
    \/ (anyDigit(l) /\ Len(words) <= 8)

ResumeIsSectionHeader(low) ==
    anyIn({"work experience", "experience", "education", "skills",
           "projects", "summary", "objective"}, low)

\* mutant: the shorter role list of should_start_new_paragraph_enhanced
ResumeIsJobTitle_short_list(l, low, words) ==
    /\ anyIn({"ui/ux designer", "designer", "developer"}, low)
    /\ Len(words) <= 4
    /\ ~anyWordIn(words, {"solutions", "technologies", "systems", "inc", "ltd"})
    /\ ~anyDigit(l)

ResumeIsJobTitle(l, low, words) ==
    /\ anyIn({"designer", "developer", "engineer", "manager", "analyst"}, low)
    /\ Len(words) <= 4
    /\ ~anyWordIn(words, {"solutions", "technologies", "systems", "inc", "ltd"})
    /\ ~anyDigit(l)

ResumeIsCompanyDate(l, low) ==
    /\ anyYearIn(l, 2015, 2025)
    /\ anyIn({"solutions", "technologies", "present", "remote",
              "bangladesh", "lahore"}, low)

ResumeIsListItem(l) == \E glyph \in {"~", "-", "*", "^", "|"} : startswith(lstrip(l), glyph)

\* mutant: the list rule returns the type name of the HTML variant
classify_resume_line_bullet_point(l, first) ==
    LET low == lower(l)
        words == split(l)
    IN  IF ResumeIsName(l, words, first) THEN [type |-> "name"]
        ELSE IF ResumeIsContact(l, low, words) THEN [type |-> "contact"]
        ELSE IF ResumeIsSectionHeader(low) THEN [type |-> "section_header"]
        ELSE IF ResumeIsJobTitle(l, low, words) THEN [type |-> "job_title"]
        ELSE IF ResumeIsCompanyDate(l, low) THEN [type |-> "company_date"]
        ELSE IF ResumeIsListItem(l) THEN [type |-> "bullet_point"]
        ELSE [type |-> "paragraph"]

\* pdf_converter.py: the rules in the order of the code, first match returns
classify_resume_line(l, first) ==
    LET low == lower(l)
        words == split(l)
    IN  IF ResumeIsName(l, words, first) THEN [type |-> "name"]
        ELSE IF ResumeIsContact(l, low, words) THEN [type |-> "contact"]
        ELSE IF ResumeIsSectionHeader(low) THEN [type |-> "section_header"]
        ELSE IF ResumeIsJobTitle(l, low, words) THEN [type |-> "job_title"]
        ELSE IF ResumeIsCompanyDate(l, low) THEN [type |-> "company_date"]
        ELSE IF ResumeIsListItem(l) THEN [type |-> "list_item"]
        ELSE [type |-> "paragraph"]

\* pdf_to_word_advanced.py
classify_line_type(l, first) ==
    LET low == lower(l)
        words == split(l)
    IN
        IF \/ first
           \/ /\ Len(words) <= 3
              /\ istitle(l)
              /\ ~anyWordIn(words, {"experience", "education", "skills"})
        THEN "name"
        ELSE IF \/ anyIn({"@", "http", "linkedin", "phone", "email"}, low)
                \/ SearchPhone(l)
        THEN "contact"
        ELSE IF anyIn({"work experience", "experience", "education", "skills",
                       "projects", "summary", "objective"}, low)
        THEN "section_header"
        ELSE IF /\ anyIn({"designer", "developer", "engineer", "manager"}, low)
                /\ SearchJobDate(l)
        THEN "job_title_with_date"
        ELSE IF MatchBullet(l)
        THEN "bullet_point"
        ELSE IF MatchNumbered(l)
        THEN "numbered_item"
        ELSE "paragraph"

\* pdf_to_html_advanced.py
classify_resume_line_for_html(l, first) ==
    LET low == lower(l)
        words == split(l)
    IN
        IF \/ first
           \/ /\ Len(words) <= 4
              /\ istitle(l)
              /\ ~anyWordIn(words, {"experience", "education", "skills", "work"})
        THEN "name"
        ELSE IF \/ anyIn({"@", "http", "linkedin", "behance"}, low)
                \/ SearchPhone(l)
                \/ (anyDigit(l) /\ Len(words) <= 10)
        THEN "contact"
        ELSE IF anyIn({"work experience", "experience", "education", "skills",
                       "projects", "summary"}, low)
        THEN "section_header"
        ELSE IF /\ anyIn({"designer", "developer", "engineer", "manager"}, low)
                /\ Len(words) <= 6
                /\ ~anyWordIn(words, {"solutions", "technologies", "with"})
        THEN "job_title"
        ELSE IF \/ anyIn({"solutions", "technologies", "remote", "bangladesh"}, low)
                \/ SearchMonthYear(l)
        THEN "company_info"
        ELSE IF \E glyph \in {"~", "^", "$", "|", ">", "=", "-", "*"} :
                    startswith(lstrip(l), glyph)
        THEN "bullet_point"
        ELSE "paragraph"

\* get_heading_level of pdf_converter.py
\* mutant: the keywords are matched case-sensitively
get_heading_level_case_sensitive(text) ==
    IF anyIn({"experience", "education", "skills"}, text) THEN 1
    ELSE IF anyDigit(text) /\ Contains(text, "20") THEN 2
    ELSE 2

get_heading_level(text) ==
    IF anyIn({"experience", "education", "skills"}, lower(text)) THEN 1
    ELSE IF anyDigit(text) /\ Contains(text, "20") THEN 2
    ELSE 2

-----------------------------------------------------------------------------
(* merge_related_content of pdf_converter.py.  Lists are 1-based here, so  *)
(* the Python index i is k - 1.                                            *)

EmptyDict == <<>>

\* mutant: the run stops only at a paragraph
RECURSIVE ContactRun_until_paragraph(_, _, _)
ContactRun_until_paragraph(content_list, contact_lines, j) ==
    IF j <= Len(content_list) /\ content_list[j].type # "paragraph"
    THEN ContactRun_until_paragraph(content_list,
                                    Append(contact_lines, content_list[j].text), j + 1)
    ELSE [lines |-> contact_lines, j |-> j]

\* the inner while loop of the contact branch: extends contact_lines from j
RECURSIVE ContactRun(_, _, _)
ContactRun(content_list, contact_lines, j) ==
    IF j <= Len(content_list) /\ content_list[j].type = "contact"
    THEN ContactRun(content_list, Append(contact_lines, content_list[j].text), j + 1)
    ELSE [lines |-> contact_lines, j |-> j]

\* mutant: the length test is off by one
RECURSIVE ParagraphRun_le(_, _, _)
ParagraphRun_le(content_list, para_lines, j) ==
    IF /\ j <= Len(content_list)
       /\ content_list[j].type = "paragraph"
       /\ Len(join(Append(para_lines, content_list[j].text))) <= 500
    THEN ParagraphRun_le(content_list, Append(para_lines, content_list[j].text), j + 1)
    ELSE [lines |-> para_lines, j |-> j]

\* the inner while loop of the paragraph branch: extends para_lines from j
RECURSIVE ParagraphRun(_, _, _)
ParagraphRun(content_list, para_lines, j) ==
    IF /\ j <= Len(content_list)
       /\ content_list[j].type = "paragraph"
       /\ Len(join(Append(para_lines, content_list[j].text))) < 500
    THEN ParagraphRun(content_list, Append(para_lines, content_list[j].text), j + 1)
    ELSE [lines |-> para_lines, j |-> j]

\* mutant: after a contact run the loop resumes one line too far
RECURSIVE MergeLoop_skip_after_contact(_, _, _, _)
MergeLoop_skip_after_contact(content_list, k, out, sp) ==
    IF k > Len(content_list) THEN [out |-> out, spans |-> sp]
    ELSE LET current == content_list[k] IN
         IF current.type = "contact"
         THEN LET run == ContactRun(content_list, <<current.text>>, k + 1)
              IN  MergeLoop_skip_after_contact(content_list, run.j + 1,
                            Append(out, [text |-> join(run.lines), type |-> "contact",
                                         formatting |-> EmptyDict]),
                            Append(sp, [first |-> k, last |-> run.j - 1]))
         ELSE IF current.type = "paragraph"
         THEN LET run == ParagraphRun(content_list, <<current.text>>, k + 1)
              IN  MergeLoop_skip_after_contact(content_list, run.j,
                            Append(out, [text |-> join(run.lines), type |-> "paragraph",
                                         formatting |-> EmptyDict]),
                            Append(sp, [first |-> k, last |-> run.j - 1]))
         ELSE MergeLoop_skip_after_contact(content_list, k + 1, Append(out, current),
                        Append(sp, [first |-> k, last |-> k]))

\* the outer while loop, from position k with the output built so far;
\* spans records, for each output node, the first and last input position
\* it was built from (the values of i and j - 1 when the node is appended)
RECURSIVE MergeLoop(_, _, _, _)
MergeLoop(content_list, k, out, sp) ==
    IF k > Len(content_list) THEN [out |-> out, spans |-> sp]
    ELSE LET current == content_list[k] IN
         IF current.type = "contact"
         THEN LET run == ContactRun(content_list, <<current.text>>, k + 1)
              IN  MergeLoop(content_list, run.j,
                            Append(out, [text |-> join(run.lines), type |-> "contact",
                                         formatting |-> EmptyDict]),
                            Append(sp, [first |-> k, last |-> run.j - 1]))
         ELSE IF current.type = "paragraph"
         THEN LET run == ParagraphRun(content_list, <<current.text>>, k + 1)
              IN  MergeLoop(content_list, run.j,
                            Append(out, [text |-> join(run.lines), type |-> "paragraph",
                                         formatting |-> EmptyDict]),
                            Append(sp, [first |-> k, last |-> run.j - 1]))
         ELSE MergeLoop(content_list, k + 1, Append(out, current),
                        Append(sp, [first |-> k, last |-> k]))

merge_related_content(content_list) == MergeLoop(content_list, 1, <<>>, <<>>).out

\* ghost: the input positions each node of merge_related_content covers
merge_spans(content_list) == MergeLoop(content_list, 1, <<>>, <<>>).spans

-----------------------------------------------------------------------------
(* Inputs                                                                  *)

RECURSIVE Rep(_, _)
Rep(c, n) ==
    IF n = 0 THEN ""
    ELSE IF n = 1 THEN c
    ELSE Rep(c, n \div 2) \o Rep(c, n - n \div 2)

\* longest line, in words, that the classifier specification builds from Vocab
MaxWords == 2
\* raw lines read per page, and entries of structured_content per document
MaxLines == 3
\* pages of one document
MaxPages == 2

Vocab == {"Jane", "Engineer", "UI/UX", "designer", "EDUCATION", "Skills",
          "a@b.co", "Jane@Doe", "~", "5", "2021", "Present", "Solutions",
          "Inc", "1.", "Jan", "555-123-4567", "-", "plain"}

ExtraLines == {"Jane Doe", "Senior Engineer", "UI/UX Designer",
               "Acme Solutions + 2021-Present",
               "~ Led a team of 5 engineers",
               "~ Led the team",
               "worked for acme solutions from 2021 until present as remote staff",
               "Senior Developer Jan 2021",
               "Lead Engineer at Acme Systems",
               "a plain sentence of several words",
               "a. plain text here",
               "B) plain text here",
               "1) one two three four five six seven eight"}

ClassifyInputs ==
    {join(ws) : ws \in UNION {[1..n -> Vocab] : n \in 1..MaxWords}} \cup ExtraLines

\* paragraph and contact lines long enough for the 500-character bound
LongPara249 == Rep("x", 249)
LongPara250 == Rep("x", 250)
LongContact == "@" \o Rep("x", 249)

RawLines == {"  EDUCATION ", "", "abc", "~ Led the team", "a@b.co", "plain text",
             LongPara249, LongPara250, LongContact}

-----------------------------------------------------------------------------
(* Specification of the classifiers as pure functions: Init draws the      *)
(* line and the flag, one action per variant applies it.                   *)

PipeInit ==
    /\ pc = "extract"
    /\ page_num = 0
    /\ i = 0
    /\ structured_content = <<>>
    /\ merged = <<>>
    /\ spans = <<>>
    /\ src_pos = <<>>

\* parse_page_range is not running
RangeIdle ==
    /\ page_range_str = ""
    /\ total_pages = 0
    /\ range_pc = "idle"
    /\ pages = <<>>

\* a value that is None or a list: Python None, and the list l
NoneValue == [none |-> TRUE, list |-> <<>>]
ListValue(l) == [none |-> FALSE, list |-> l]

\* the file that is not there
NoPdf == [exists |-> FALSE, plumber_fails |-> FALSE, pages |-> <<>>,
          pymupdf_fails |-> FALSE, blocks |-> <<>>, writer_fails |-> FALSE]

\* convert_pdf_to_word is not running
ConvIdle ==
    /\ pdf = NoPdf
    /\ conv_pc = "idle"
    /\ conv_content = NoneValue
    /\ meaningful_content = <<>>
    /\ result = [pending |-> TRUE]
    /\ calls = <<>>
    /\ written = <<>>

NotExited == 0 - 1

\* no script is running
NoProc == [script |-> "", argc |-> 0, exists |-> FALSE, ext_ok |-> FALSE,
           primary |-> "ok", fallback |-> "ok",
           angle |-> "", page_string |-> "", page_count |-> 0,
           doc |-> NoPdf, operation |-> "", add_pages |-> 0, insertion_point |-> ""]

ScriptIdle ==
    /\ proc = NoProc
    /\ script_pc = "idle"
    /\ stdout = <<>>
    /\ exit_status = NotExited

\* a line of extract_formatted_lines, as the paragraph-break deciders read it
Line(text, font_size, is_bold) ==
    [text |-> text, font_size |-> font_size, is_bold |-> is_bold]

BreakIdle ==
    /\ cur_line = Line("", 0, FALSE)
    /\ accum = <<>>
    /\ decided = {}
    /\ breaks = {}

FormatIdle ==
    /\ page_chars = <<>>
    /\ fl_pc = "idle"
    /\ sorted_lines = <<>>
    /\ line_members = <<>>

RemoveIdle ==
    /\ rm_call = [lib |-> "ok", page_count |-> 0, pages_to_remove |-> ""]
    /\ rm_pc = "idle"
    /\ rm_outcome = [error |-> "", result |-> [pending |-> TRUE], saved |-> NoneValue]

\* rotate_pdf_professional has not returned
NoRotation == [ret |-> FALSE, out |-> <<>>, rotated |-> {}, saved |-> FALSE]

RotateIdle ==
    /\ rot_call = [lib |-> "ok", rotations |-> <<>>, rotation_angle |-> 0,
                   page_numbers |-> NoneValue]
    /\ rot_pc = "idle"
    /\ rot_outcome = NoRotation
    /\ rot_saved = NoneValue

\* edit_pdf_comprehensive has neither returned nor raised
NoOutcome == [error |-> "", result |-> [pending |-> TRUE], saved |-> NoneValue]

EditIdle ==
    /\ ed_call = [lib |-> "ok", total_pages |-> 0, edit_operations |-> <<>>]
    /\ ed_pc = "idle"
    /\ ed_k = 0
    /\ ed_drawn = <<>>
    /\ operations_applied = 0
    /\ ed_outcome = NoOutcome

\* every script but the one named is idle
IdleExcept(script) ==
    /\ script # "range" => RangeIdle
    /\ script # "conv" => ConvIdle
    /\ script # "script" => ScriptIdle
    /\ script # "break" => BreakIdle
    /\ script # "format" => FormatIdle
    /\ script # "remove" => RemoveIdle
    /\ script # "rotate" => RotateIdle
    /\ script # "edit" => EditIdle

ToolsIdle == IdleExcept("")

InitClassify ==
    /\ line \in ClassifyInputs
    /\ is_first_line \in BOOLEAN
    /\ res_resume = "pending"
    /\ res_word = "pending"
    /\ res_html = "pending"
    /\ res_level = None
    /\ PipeInit
    /\ ToolsIdle

ClassifyResume ==
    /\ res_resume = "pending"
    /\ res_resume' = classify_resume_line(line, is_first_line).type
    /\ UNCHANGED <<line, is_first_line, res_word, res_html, res_level, pipeVars, toolVars>>

ClassifyWord ==
    /\ res_word = "pending"
    /\ res_word' = classify_line_type(line, is_first_line)
    /\ UNCHANGED <<line, is_first_line, res_resume, res_html, res_level, pipeVars, toolVars>>

ClassifyHtml ==
    /\ res_html = "pending"
    /\ res_html' = classify_resume_line_for_html(line, is_first_line)
    /\ UNCHANGED <<line, is_first_line, res_resume, res_word, res_level, pipeVars, toolVars>>

\* get_heading_level applied to the line text
HeadingLevel ==
    /\ res_level = None
    /\ res_level' = get_heading_level(line)
    /\ UNCHANGED <<line, is_first_line, res_resume, res_word, res_html, pipeVars, toolVars>>

NextClassify == ClassifyResume \/ ClassifyWord \/ ClassifyHtml \/ HeadingLevel

SpecClassify == InitClassify /\ [][NextClassify]_vars

-----------------------------------------------------------------------------
(* Specification of extract_text_with_pdfplumber: the extraction           *)
(* collaborator supplies the raw lines of each page one by one.            *)

\* no classifier call is pending
ClassIdle ==
    /\ line = ""
    /\ is_first_line = FALSE
    /\ res_resume = "pending"
    /\ res_word = "pending"
    /\ res_html = "pending"
    /\ res_level = None

Init ==
    /\ ClassIdle
    /\ PipeInit
    /\ ToolsIdle

\* what the body of "for i, line in enumerate(lines)" appends for the raw
\* line at index idx of its page: nothing for a line that is blank or
\* shorter than 5 characters after stripping, else the classified entry
line_entries(raw, idx) ==
    LET l == strip(raw) IN
        IF l = "" \/ Len(l) < 5
        THEN <<>>
        ELSE LET line_type == classify_resume_line(l, idx = 0) IN
             <<[text |-> l,
                type |-> line_type.type,
                level |-> Get(line_type, "level"),
                formatting |-> EmptyDict]>>

\* the body of "for i, line in enumerate(lines)" for one raw line; the
\* model stops reading at MaxLines raw lines per page and MaxLines entries
\* per document
ExtractLine(raw) ==
    /\ pc = "extract"
    /\ i < MaxLines
    /\ Len(structured_content) < MaxLines
    /\ structured_content' = structured_content \o line_entries(raw, i)
    /\ i' = i + 1
    /\ UNCHANGED <<pc, page_num, merged, spans, classVars, toolVars>>

\* one iteration of the line loop
ProcessLine(raw) == ExtractLine(raw) /\ UNCHANGED src_pos

\* "for page_num, page in enumerate(pdf.pages)" moves on to the next page
NextPage ==
    /\ pc = "extract"
    /\ page_num + 1 < MaxPages
    /\ page_num' = page_num + 1
    /\ i' = 0
    /\ UNCHANGED <<pc, structured_content, merged, spans, src_pos, classVars, toolVars>>

\* "return merge_related_content(structured_content)"
ReturnMerged ==
    /\ pc = "extract"
    /\ merged' = merge_related_content(structured_content)
    /\ spans' = merge_spans(structured_content)
    /\ pc' = "returned"
    /\ UNCHANGED <<page_num, i, structured_content, src_pos, classVars, toolVars>>

Next == (\E raw \in RawLines : ProcessLine(raw)) \/ NextPage \/ ReturnMerged

Spec == Init /\ [][Next]_vars

\* The same loop with the position of every kept line recorded, over a
\* smaller set of raw lines.
PagedLines == {"", "plain text", "~ Led the team", "a@b.co", "Jane Doe"}

ProcessPagedLine(raw) ==
    /\ ExtractLine(raw)
    /\ src_pos' = IF Len(structured_content') > Len(structured_content)
                  THEN Append(src_pos, [page_num |-> page_num, i |-> i])
                  ELSE src_pos

NextPaged == (\E raw \in PagedLines : ProcessPagedLine(raw)) \/ NextPage \/ ReturnMerged

SpecPaged == Init /\ [][NextPaged]_vars

-----------------------------------------------------------------------------
(* pdf_page_manager.py: parse_page_range                                   *)

\* s.split(sep) for a one-character separator: empty pieces are kept
RECURSIVE splitOn(_, _)
splitOn(s, sep) ==
    IF ~Contains(s, sep) THEN <<s>>
    ELSE LET k == CHOOSE k \in 1..Len(s) :
                      Ch(s, k) = sep /\ \A m \in 1..(k - 1) : Ch(s, m) # sep
         IN  <<SubSeq(s, 1, k - 1)>> \o splitOn(SubSeq(s, k + 1, Len(s)), sep)

digitOf(c) == CHOOSE d \in 0..9 : digitChar(d) = c

\* the value of a string of decimal digits
RECURSIVE intVal(_)
intVal(s) ==
    IF s = "" THEN 0
    ELSE 10 * intVal(SubSeq(s, 1, Len(s) - 1)) + digitOf(Ch(s, Len(s)))

\* int(s): the value of a digit string with an optional minus sign
\* (surrounding white space allowed), ValueError for any other text of the
\* model's alphabet
int(s) ==
    LET t == strip(s)
        digits == IF Ch(t, 1) = "-" THEN SubSeq(t, 2, Len(t)) ELSE t
    IN  IF digits # "" /\ \A k \in 1..Len(digits) : isdigit(Ch(digits, k))
        THEN [error |-> "",
              val |-> IF Ch(t, 1) = "-" THEN 0 - intVal(digits) ELSE intVal(digits)]
        ELSE [error |-> "ValueError", val |-> 0]

\* the try body of the range branch: unpacking needs exactly two pieces
RangePart(part, total) ==
    LET pieces == splitOn(part, "-")
    IN  IF Len(pieces) # 2 THEN [error |-> "ValueError", pages |-> {}]
        ELSE LET start == int(pieces[1])
                 end == int(pieces[2])
             IN  IF start.error # "" THEN [error |-> start.error, pages |-> {}]
                 ELSE IF end.error # "" THEN [error |-> end.error, pages |-> {}]
                 ELSE [error |-> "",
                       pages |-> {n - 1 : n \in {m \in start.val..end.val :
                                                    1 <= m /\ m <= total}}]

\* mutant: the page number is stored without the conversion to 0-indexed
SinglePart_one_indexed(part, total) ==
    LET page == int(part)
    IN  IF page.error # "" THEN [error |-> page.error, pages |-> {}]
        ELSE IF 1 <= page.val /\ page.val <= total
        THEN [error |-> "", pages |-> {page.val}]
        ELSE [error |-> "", pages |-> {}]

\* the try body of the single-page branch
SinglePart(part, total) ==
    LET page == int(part)
    IN  IF page.error # "" THEN [error |-> page.error, pages |-> {}]
        ELSE IF 1 <= page.val /\ page.val <= total
        THEN [error |-> "", pages |-> {page.val - 1}]
        ELSE [error |-> "", pages |-> {}]

\* "except ValueError: continue"
ExceptValueError(r) ==
    IF r.error = "ValueError" THEN [error |-> "", pages |-> {}] ELSE r

\* the for loop over parts, from part k with the set built so far
RECURSIVE PartsLoop(_, _, _, _)
PartsLoop(parts, k, acc, total) ==
    IF k > Len(parts) THEN [error |-> "", pages |-> acc]
    ELSE LET part == parts[k]
             r == ExceptValueError(IF Contains(part, "-")
                                   THEN RangePart(part, total)
                                   ELSE SinglePart(part, total))
         IN  IF r.error # "" THEN [error |-> r.error, pages |-> acc]
             ELSE PartsLoop(parts, k + 1, acc \cup r.pages, total)

\* sorted(list(pages))
RECURSIVE sorted(_)
sorted(S) ==
    IF S = {} THEN <<>>
    ELSE LET lo == CHOOSE x \in S : \A y \in S : x <= y
         IN  <<lo>> \o sorted(S \ {lo})

\* sorted(..., reverse=True) of distinct values
RECURSIVE sorted_reverse(_)
sorted_reverse(S) ==
    IF S = {} THEN <<>>
    ELSE LET hi == CHOOSE x \in S : \A y \in S : x >= y
         IN  <<hi>> \o sorted_reverse(S \ {hi})

\* list(range(n))
range(n) == [k \in 1..n |-> k - 1]

parse_page_range(str_, total) ==
    IF str_ = "" \/ strip(str_) = ""
    THEN [error |-> "", pages |-> range(total)]
    ELSE LET parts == splitOn(removeChar(str_, " "), ",")
             r == PartsLoop(parts, 1, {}, total)
         IN  [error |-> r.error, pages |-> sorted(r.pages)]

MaxRangeLen == 4
MaxTotalPages == 2
RangeAlphabet == {"1", "2", "0", ",", "-", " ", "x"}

RECURSIVE StringsOfLen(_)
StringsOfLen(n) ==
    IF n = 0 THEN {""}
    ELSE {s \o c : s \in StringsOfLen(n - 1), c \in RangeAlphabet}

RangeStrings == UNION {StringsOfLen(n) : n \in 0..MaxRangeLen}

InitRange ==
    /\ ClassIdle
    /\ PipeInit
    /\ IdleExcept("range")
    /\ page_range_str \in RangeStrings
    /\ total_pages \in 0..MaxTotalPages
    /\ range_pc = "call"
    /\ pages = <<>>

\* one call of parse_page_range
ParsePageRange ==
    /\ range_pc = "call"
    /\ LET r == parse_page_range(page_range_str, total_pages)
       IN  /\ range_pc' = IF r.error = "" THEN "returned" ELSE "raised"
           /\ pages' = r.pages
    /\ UNCHANGED <<page_range_str, total_pages, rangeOther>>

NextRange == ParsePageRange

SpecRange == InitRange /\ [][NextRange]_vars

-----------------------------------------------------------------------------
(* pdf_converter.py: convert_pdf_to_word and its two extractors            *)
(*                                                                         *)
(* The file is given as what each collaborator reads from it: for          *)
(* pdfplumber the raw lines of each page (<<>> for a page without text),   *)
(* for PyMuPDF the blocks of each page, a block being a record with its    *)
(* type and, for a text block, its lines as sequences of span texts.       *)

\* the entries the line loop appends for one page, from line k
RECURSIVE page_entries(_, _)
page_entries(lines, k) ==
    IF k > Len(lines) THEN <<>>
    ELSE line_entries(lines[k], k - 1) \o page_entries(lines, k + 1)

\* the entries the page loop appends, from page p
RECURSIVE doc_entries(_, _)
doc_entries(doc, p) ==
    IF p > Len(doc) THEN <<>>
    ELSE page_entries(doc[p], 1) \o doc_entries(doc, p + 1)

\* extract_text_with_pdfplumber: None when the library raises
extract_text_with_pdfplumber(f) ==
    IF f.plumber_fails THEN NoneValue
    ELSE ListValue(merge_related_content(doc_entries(f.pages, 1)))

\* str.isupper(): some cased character and no lowercase one
str_isupper(s) ==
    /\ \E k \in 1..Len(s) : iscased(Ch(s, k))
    /\ \A k \in 1..Len(s) : ~islower(Ch(s, k))

\* sum() of a list of booleans
CountTrue(flags) == Cardinality({k \in DOMAIN flags : flags[k]})

detect_heading(text) ==
    IF text = "" \/ Len(text) > 200 THEN FALSE
    ELSE CountTrue(<<str_isupper(text),
                     Len(split(text)) <= 8,
                     anyIn({"experience", "education", "skills", "projects",
                            "work", "employment"}, lower(text)),
                     endswith(text, ":"),
                     anyDigit(text) /\ Contains(text, "20")>>) >= 2

\* line_text of one line: the texts of its non-blank spans, concatenated
RECURSIVE span_texts(_, _)
span_texts(line_spans, k) ==
    IF k > Len(line_spans) THEN ""
    ELSE (IF strip(line_spans[k]) # "" THEN line_spans[k] ELSE "")
             \o span_texts(line_spans, k + 1)

\* block_lines of one block: the stripped non-blank line texts
RECURSIVE block_lines(_, _)
block_lines(lines, k) ==
    IF k > Len(lines) THEN <<>>
    ELSE LET line_text == span_texts(lines[k], 1)
         IN  (IF strip(line_text) # "" THEN <<strip(line_text)>> ELSE <<>>)
                 \o block_lines(lines, k + 1)

\* the paragraphs of the blocks of one page, from block k
RECURSIVE page_paragraphs(_, _)
page_paragraphs(blocks, k) ==
    IF k > Len(blocks) THEN <<>>
    ELSE LET block == blocks[k]
             kept == IF "lines" \in DOMAIN block /\ block.type = 0
                     THEN LET bl == block_lines(block.lines, 1)
                              paragraph_text == join(bl)
                          IN  IF bl # <<>> /\ Len(strip(paragraph_text)) > 20
                              THEN <<paragraph_text>>
                              ELSE <<>>
                     ELSE <<>>
         IN  kept \o page_paragraphs(blocks, k + 1)

RECURSIVE doc_paragraphs(_, _)
doc_paragraphs(doc, p) ==
    IF p > Len(doc) THEN <<>>
    ELSE page_paragraphs(doc[p], 1) \o doc_paragraphs(doc, p + 1)

\* "remove duplicates while preserving order"
RECURSIVE unique_paragraphs(_, _, _)
unique_paragraphs(paragraphs, k, out) ==
    IF k > Len(paragraphs) THEN out
    ELSE unique_paragraphs(paragraphs, k + 1,
             IF \E m \in DOMAIN out : out[m] = paragraphs[k]
             THEN out ELSE Append(out, paragraphs[k]))

\* extract_text_with_pymupdf: None when the library raises
extract_text_with_pymupdf(f) ==
    IF f.pymupdf_fails THEN NoneValue
    ELSE ListValue(unique_paragraphs(doc_paragraphs(f.blocks, 1), 1, <<>>))

\* "not x" for a value that is None or a list
\* mutant: only None counts as no content
falsy_only_none(x) == x.none

falsy(x) == x.none \/ x.list = <<>>

\* the structured format of the fallback paragraphs
fallback_content(paragraphs) ==
    [k \in DOMAIN paragraphs |->
        [text |-> paragraphs[k],
         type |-> IF detect_heading(paragraphs[k]) THEN "heading" ELSE "paragraph",
         level |-> 2]]

\* mutant: nothing is filtered out
meaningful_all(content) == content

\* "filter out very short content"
meaningful(content) == SelectSeq(content, LAMBDA item : Len(strip(item.text)) > 8)

CountType(content, t) == Cardinality({k \in DOMAIN content : content[k].type = t})

SuccessMessage(content) ==
    "Successfully converted PDF to Word. Created " \o str(CountType(content, "heading"))
        \o " headings and " \o str(CountType(content, "paragraph")) \o " paragraphs."

Failure(msg) == [success |-> FALSE, error |-> msg]

\* the pages pdfplumber may read
PlumberDocs ==
    { <<>>,
      << <<>> >>,
      << <<"", "abc">>, <<>> >>,
      << <<"   ", "">>, <<"">> >>,
      << <<"a@b.co">> >>,
      << <<"", "plain text">> >>,
      << <<"", "a@b.co", "x@y.io">> >>,
      << <<"Jane Doe", "", "a@b.co", "plain text", "more plain text">>,
         <<"", "  EDUCATION ">> >> }

\* the blocks PyMuPDF may read
TextBlock(lines) == [type |-> 0, lines |-> lines]
ImageBlock == [type |-> 1]
MuDocs ==
    { <<>>,
      << <<>> >>,
      << <<ImageBlock>> >>,
      << <<TextBlock(<< <<"short ", "text">>, <<"  ">> >>)>> >>,
      << <<TextBlock(<< <<"EDUCATION AND ">>, <<" SKILLS", " 2021">> >>),
           ImageBlock,
           TextBlock(<< <<"a plain sentence of several words">> >>)>>,
         <<TextBlock(<< <<"a plain sentence of several words">> >>)>> >> }

Pdfs ==
    [exists : BOOLEAN, plumber_fails : BOOLEAN, pages : PlumberDocs,
     pymupdf_fails : BOOLEAN, blocks : MuDocs, writer_fails : BOOLEAN]

InitConvert ==
    /\ ClassIdle
    /\ PipeInit
    /\ IdleExcept("conv")
    /\ pdf \in Pdfs
    /\ conv_pc = "start"
    /\ conv_content = NoneValue
    /\ meaningful_content = <<>>
    /\ result = [pending |-> TRUE]
    /\ calls = <<>>
    /\ written = <<>>

\* "if not os.path.exists(input_path)"
CheckExists ==
    /\ conv_pc = "start"
    /\ IF ~pdf.exists
       THEN result' = Failure("PDF file not found") /\ conv_pc' = "done"
       ELSE UNCHANGED result /\ conv_pc' = "pdfplumber"
    /\ UNCHANGED <<pdf, conv_content, meaningful_content, calls, written, convOther>>

\* mutant: an empty extraction is tried a second time
CallPdfplumber_retry ==
    /\ conv_pc = "pdfplumber"
    /\ conv_content' = extract_text_with_pdfplumber(pdf)
    /\ calls' = Append(calls, "pdfplumber")
    /\ conv_pc' = IF falsy(conv_content')
                  THEN (IF calls = <<>> THEN "pdfplumber" ELSE "pymupdf")
                  ELSE "filter"
    /\ UNCHANGED <<pdf, meaningful_content, result, written, convOther>>

\* "structured_content = extract_text_with_pdfplumber(input_path)"
CallPdfplumber ==
    /\ conv_pc = "pdfplumber"
    /\ conv_content' = extract_text_with_pdfplumber(pdf)
    /\ calls' = Append(calls, "pdfplumber")
    /\ conv_pc' = IF falsy(conv_content') THEN "pymupdf" ELSE "filter"
    /\ UNCHANGED <<pdf, meaningful_content, result, written, convOther>>

\* the fallback branch
CallPymupdf ==
    /\ conv_pc = "pymupdf"
    /\ LET paragraphs == extract_text_with_pymupdf(pdf)
       IN  conv_content' = IF ~falsy(paragraphs)
                           THEN ListValue(fallback_content(paragraphs.list))
                           ELSE conv_content
    /\ calls' = Append(calls, "pymupdf")
    /\ conv_pc' = "filter"
    /\ UNCHANGED <<pdf, meaningful_content, result, written, convOther>>

\* the two emptiness checks around the filter
FilterContent ==
    /\ conv_pc = "filter"
    /\ IF falsy(conv_content)
       THEN /\ result' = Failure("No text found in PDF. The PDF may be image-based or encrypted.")
            /\ conv_pc' = "done"
            /\ UNCHANGED meaningful_content
       ELSE /\ meaningful_content' = meaningful(conv_content.list)
            /\ IF falsy(ListValue(meaningful_content'))
               THEN /\ result' = Failure("No substantial text content found in PDF")
                    /\ conv_pc' = "done"
               ELSE UNCHANGED result /\ conv_pc' = "writer"
    /\ UNCHANGED <<pdf, conv_content, calls, written, convOther>>

\* "if create_word_document(meaningful_content, output_path)": the writer
\* saves the document and returns True, or raises inside and returns False
CallWriter ==
    /\ conv_pc = "writer"
    /\ calls' = Append(calls, "writer")
    /\ IF ~pdf.writer_fails
       THEN /\ written' = meaningful_content
            /\ result' = [success |-> TRUE, message |-> SuccessMessage(meaningful_content)]
       ELSE /\ UNCHANGED written
            /\ result' = Failure("Failed to create Word document")
    /\ conv_pc' = "done"
    /\ UNCHANGED <<pdf, conv_content, meaningful_content, convOther>>

NextConvert == CheckExists \/ CallPdfplumber \/ CallPymupdf \/ FilterContent \/ CallWriter

SpecConvert == InitConvert /\ [][NextConvert]_vars

-----------------------------------------------------------------------------
(* The command-line entry points of pdf_to_word_advanced.py,               *)
(* word_to_pdf_converter.py and rotate_pdf_converter.py.                   *)
(*                                                                         *)
(* proc gives len(sys.argv), whether the input file exists and has the     *)
(* expected extension, what the primary and the fallback library do ("ok"  *)
(* or the exception they raise), and for the rotation script the angle     *)
(* and page arguments and the page count of the document.  A conversion    *)
(* function is an operator that gives its return value and what it prints  *)
(* on standard output.                                                     *)

Success(msg) == [success |-> TRUE, message |-> msg]

\* pdf_to_word_advanced.py
convert_with_enhanced_pdfplumber(p) ==
    IF p.fallback = "ok"
    THEN [ret |-> TRUE,
          out |-> <<Success("PDF converted using enhanced structure preservation")>>]
    ELSE [ret |-> FALSE, out |-> <<Failure("Conversion failed: " \o p.fallback)>>]

convert_pdf_to_word_professional(p) ==
    IF p.primary = "ok"
    THEN [ret |-> TRUE,
          out |-> <<Success("PDF converted to Word with professional structure preservation")>>]
    ELSE convert_with_enhanced_pdfplumber(p)

main_pdf_to_word_advanced(p) ==
    IF p.argc # 3
    THEN [out |-> <<Failure("Usage: python pdf_to_word_advanced.py <input_pdf> <output_docx>")>>,
          status |-> 1]
    ELSE IF ~p.exists
    THEN [out |-> <<Failure("Input file not found: input_file")>>, status |-> 1]
    ELSE LET success == convert_pdf_to_word_professional(p)
         IN  [out |-> success.out, status |-> IF success.ret THEN 0 ELSE 1]

\* word_to_pdf_converter.py
\* mutant: the except branch also prints a failure object
convert_word_to_pdf_professional_reports(p) ==
    IF p.primary = "ok"
    THEN [ret |-> TRUE,
          out |-> <<Success("Word document successfully converted to PDF with N paragraphs and M tables.")>>]
    ELSE [ret |-> FALSE, out |-> <<Failure("Conversion failed: " \o p.primary)>>]

convert_word_to_pdf_professional(p) ==
    IF p.primary = "ok"
    THEN [ret |-> TRUE,
          out |-> <<Success("Word document successfully converted to PDF with N paragraphs and M tables.")>>]
    ELSE [ret |-> FALSE, out |-> <<>>]

convert_with_mammoth_fallback(p) ==
    IF p.fallback = "ok"
    THEN [ret |-> TRUE,
          out |-> <<Success("Word document converted to PDF using fallback method")>>]
    ELSE [ret |-> FALSE, out |-> <<>>]

main_word_to_pdf_converter(p) ==
    IF p.argc # 3
    THEN [out |-> <<Failure("Usage: python word_to_pdf_converter.py <input.docx> <output.pdf>")>>,
          status |-> 1]
    ELSE IF ~p.exists
    THEN [out |-> <<Failure("Input file not found")>>, status |-> 1]
    ELSE IF ~p.ext_ok
    THEN [out |-> <<Failure("Input file must be a .docx file")>>, status |-> 1]
    ELSE LET professional == convert_word_to_pdf_professional(p)
         IN  IF professional.ret THEN [out |-> professional.out, status |-> 0]
             ELSE LET fallback == convert_with_mammoth_fallback(p)
                  IN  IF fallback.ret
                      THEN [out |-> professional.out \o fallback.out, status |-> 0]
                      ELSE [out |-> professional.out \o fallback.out \o
                                    <<Failure("All conversion methods failed. Please ensure the Word document is not corrupted.")>>,
                            status |-> 1]

\* rotate_pdf_converter.py
\* s.split(sep, 1): at most one split, at the first separator
splitFirst(s, sep) ==
    IF ~Contains(s, sep) THEN <<s>>
    ELSE LET k == CHOOSE k \in 1..Len(s) :
                      Ch(s, k) = sep /\ \A m \in 1..(k - 1) : Ch(s, m) # sep
         IN  <<SubSeq(s, 1, k - 1), SubSeq(s, k + 1, Len(s))>>

\* one part of the page string: the page numbers it adds, or the ValueError
PagePart(part) ==
    IF Contains(part, "-")
    THEN LET pieces == splitFirst(part, "-")
             start_num == int(strip(pieces[1]))
             end_num == int(strip(pieces[2]))
         IN  IF start_num.error # "" \/ end_num.error # "" \/ start_num.val > end_num.val
             THEN [error |-> "Invalid page range: " \o part, pages |-> {}]
             ELSE [error |-> "", pages |-> start_num.val..end_num.val]
    ELSE LET page_number == int(part)
         IN  IF page_number.error # "" \/ page_number.val < 1
             THEN [error |-> "Invalid page number: " \o part, pages |-> {}]
             ELSE [error |-> "", pages |-> {page_number.val}]

RECURSIVE PagePartsLoop(_, _, _)
PagePartsLoop(parts, k, acc) ==
    IF k > Len(parts) THEN [error |-> "", pages |-> acc]
    ELSE LET part == strip(parts[k])
         IN  IF part = "" THEN PagePartsLoop(parts, k + 1, acc)
             ELSE LET r == PagePart(part)
                  IN  IF r.error # "" THEN [error |-> r.error, pages |-> acc]
                      ELSE PagePartsLoop(parts, k + 1, acc \cup r.pages)

\* parse_page_numbers: None for a blank string, else the sorted list, or
\* the message of the ValueError it raises
parse_page_numbers(page_string) ==
    IF page_string = "" \/ strip(page_string) = ""
    THEN [error |-> "", value |-> NoneValue]
    ELSE LET r == PagePartsLoop(splitOn(strip(page_string), ","), 1, {})
         IN  [error |-> r.error, value |-> ListValue(sorted(r.pages))]

\* mutant: page numbers out of range are skipped
rotate_pdf_professional_lenient(p, rotation_angle, page_numbers) ==
    LET failed == [ret |-> FALSE, out |-> <<>>, rotated |-> {}, saved |-> FALSE]
        total == p.page_count
        invalid_pages == {n \in DOMAIN page_numbers.list :
                              ~(1 <= page_numbers.list[n] /\ page_numbers.list[n] <= total)}
        pages_to_rotate ==
            IF page_numbers.none THEN 0..(total - 1)
            ELSE {page_numbers.list[n] - 1 : n \in DOMAIN page_numbers.list \ invalid_pages}
        rotation_description ==
            IF page_numbers.none THEN "all " \o str(total) \o " pages"
            ELSE str(Cardinality(pages_to_rotate)) \o " specified pages"
    IN  IF rotation_angle \notin {90, 180, 270} THEN failed
        ELSE IF p.primary # "ok" THEN failed
        ELSE IF total = 0 THEN failed
        ELSE IF ~page_numbers.none /\ pages_to_rotate = {} THEN failed
        ELSE [ret |-> TRUE,
              out |-> <<Success("PDF successfully rotated " \o str(rotation_angle)
                                  \o "# for " \o rotation_description \o ".")>>,
              rotated |-> pages_to_rotate,
              saved |-> TRUE]

\* rotate_pdf_professional: every ValueError and library exception is
\* caught; the document is saved only on the success path
rotate_pdf_professional(p, rotation_angle, page_numbers) ==
    LET failed == [ret |-> FALSE, out |-> <<>>, rotated |-> {}, saved |-> FALSE]
        total == p.page_count
        invalid_pages == {n \in DOMAIN page_numbers.list :
                              ~(1 <= page_numbers.list[n] /\ page_numbers.list[n] <= total)}
        pages_to_rotate ==
            IF page_numbers.none THEN 0..(total - 1)
            ELSE {page_numbers.list[n] - 1 : n \in DOMAIN page_numbers.list \ invalid_pages}
        rotation_description ==
            IF page_numbers.none THEN "all " \o str(total) \o " pages"
            ELSE str(Cardinality(pages_to_rotate)) \o " specified pages"
    IN  IF rotation_angle \notin {90, 180, 270} THEN failed
        ELSE IF p.primary # "ok" THEN failed
        ELSE IF total = 0 THEN failed
        ELSE IF ~page_numbers.none /\ invalid_pages # {} THEN failed
        ELSE IF ~page_numbers.none /\ pages_to_rotate = {} THEN failed
        ELSE [ret |-> TRUE,
              out |-> <<Success("PDF successfully rotated " \o str(rotation_angle)
                                  \o "# for " \o rotation_description \o ".")>>,
              rotated |-> pages_to_rotate,
              saved |-> TRUE]

main_rotate_pdf_converter(p) ==
    LET rotation_angle == int(p.angle)
        given == p.argc > 4 /\ strip(p.page_string) # ""
        page_numbers == IF given THEN parse_page_numbers(p.page_string)
                        ELSE [error |-> "", value |-> NoneValue]
    IN  IF p.argc < 4
        THEN [out |-> <<Failure("Usage: python rotate_pdf_converter.py <input.pdf> <output.pdf> <rotation_angle> [page_numbers]")>>,
              status |-> 1]
        ELSE IF rotation_angle.error # ""
        THEN [out |-> <<Failure("Rotation angle must be a number (90, 180, or 270)")>>,
              status |-> 1]
        ELSE IF page_numbers.error # ""
        THEN [out |-> <<Failure("Invalid page specification: " \o page_numbers.error)>>,
              status |-> 1]
        ELSE IF ~p.exists
        THEN [out |-> <<Failure("Input file not found")>>, status |-> 1]
        ELSE IF ~p.ext_ok
        THEN [out |-> <<Failure("Input file must be a .pdf file")>>, status |-> 1]
        ELSE LET rotate == rotate_pdf_professional(p, rotation_angle.val, page_numbers.value)
             IN  IF rotate.ret THEN [out |-> rotate.out, status |-> 0]
                 ELSE [out |-> rotate.out \o
                               <<Failure("PDF rotation failed. Please ensure the PDF is not corrupted.")>>,
                       status |-> 1]

\* pdf_converter.py: the value convert_pdf_to_word returns for a file,
\* in three steps: the filter and the writer, the fallback, the extraction
write_meaningful(f, kept) ==
    IF kept = <<>> THEN Failure("No substantial text content found in PDF")
    ELSE IF ~f.writer_fails
    THEN [success |-> TRUE, message |-> SuccessMessage(kept)]
    ELSE Failure("Failed to create Word document")

convert_content(f, content) ==
    IF falsy(content)
    THEN Failure("No text found in PDF. The PDF may be image-based or encrypted.")
    ELSE write_meaningful(f, meaningful(content.list))

convert_extracted(f, first, paragraphs) ==
    convert_content(f, IF falsy(first) /\ ~falsy(paragraphs)
                       THEN ListValue(fallback_content(paragraphs.list))
                       ELSE first)

convert_pdf_to_word(f) ==
    IF ~f.exists THEN Failure("PDF file not found")
    ELSE convert_extracted(f, extract_text_with_pdfplumber(f), extract_text_with_pymupdf(f))

\* main of pdf_converter.py: the result is printed and main returns
main_pdf_converter(p) ==
    IF p.argc # 3
    THEN [out |-> <<Failure("Usage: python pdf_converter.py <input.pdf> <output.docx>")>>,
          status |-> 1]
    ELSE [out |-> <<convert_pdf_to_word(p.doc)>>, status |-> 0]

\* pdf_page_manager.py: the page operations.  A document is the list of
\* its pages, each with the number it has in its file and its rotation;
\* lib is what PyMuPDF does ("ok" or the exception it raises).  An
\* operation gives the message of the exception it raises ("" for none),
\* the dict it returns and the page list it saves (None when it saves
\* nothing).
Page(file, number) == [file |-> file, number |-> number, rotation |-> 0]

Document(file, page_count) == [k \in 1..page_count |-> Page(file, k)]

Raises(msg) == [error |-> msg, result |-> Failure(msg), saved |-> NoneValue]

Returns(msg, saved_pages) ==
    [error |-> "", result |-> Success(msg), saved |-> ListValue(saved_pages)]

\* the except clauses shared by the three operations
LibraryRaises(lib, operation_name) ==
    IF lib = "ImportError" THEN Raises("PyMuPDF (fitz) library not available")
    ELSE Raises(operation_name \o " failed: " \o lib)

\* rotate_pdf_pages after parse_page_range has given pages_to_rotate
rotate_parsed(lib, doc_pages, rotation_angle, pages_to_rotate) ==
    IF lib = "ImportError" THEN LibraryRaises(lib, "PDF rotation")
    ELSE IF rotation_angle \notin {90, 180, 270}
    THEN Raises("PDF rotation failed: Invalid rotation angle: " \o str(rotation_angle)
                    \o ". Must be 90, 180, or 270 degrees.")
    ELSE IF lib # "ok" THEN LibraryRaises(lib, "PDF rotation")
    ELSE IF doc_pages = <<>>
    THEN Raises("PDF rotation failed: PDF document contains no pages")
    ELSE IF pages_to_rotate = <<>>
    THEN Raises("PDF rotation failed: No valid pages specified for rotation")
    ELSE Returns("PDF successfully rotated " \o str(rotation_angle) \o "# for "
                     \o str(Len(pages_to_rotate)) \o " pages.",
                 [k \in DOMAIN doc_pages |->
                     IF \E n \in DOMAIN pages_to_rotate : pages_to_rotate[n] = k - 1
                     THEN [doc_pages[k] EXCEPT !.rotation = rotation_angle]
                     ELSE doc_pages[k]])

rotate_pdf_pages(lib, doc_pages, rotation_angle, page_numbers) ==
    rotate_parsed(lib, doc_pages, rotation_angle,
                  parse_page_range(page_numbers, Len(doc_pages)).pages)

\* pdf_doc.delete_page(page_idx) for a 0-indexed page_idx
delete_page(doc_pages, page_idx) ==
    SubSeq(doc_pages, 1, page_idx) \o SubSeq(doc_pages, page_idx + 2, Len(doc_pages))

\* mutant: the indices stay in ascending order
reversed_sorted_ascending(list) == list

\* sorted(list, reverse=True)
reversed_sorted(list) == sorted_reverse({list[k] : k \in DOMAIN list})

\* the deletion loop over the indices in the order given
RECURSIVE DeleteLoop(_, _, _, _)
DeleteLoop(doc_pages, order, k, total) ==
    IF k > Len(order) THEN doc_pages
    ELSE DeleteLoop(IF 0 <= order[k] /\ order[k] < total
                    THEN delete_page(doc_pages, order[k])
                    ELSE doc_pages,
                    order, k + 1, total)

\* remove_pdf_pages after parse_page_range has given remove_pages
remove_parsed(lib, doc_pages, remove_pages) ==
    IF lib # "ok" THEN LibraryRaises(lib, "PDF page removal")
    ELSE IF doc_pages = <<>>
    THEN Raises("PDF page removal failed: PDF document contains no pages")
    ELSE IF remove_pages = <<>>
    THEN Raises("PDF page removal failed: No valid pages specified for removal")
    ELSE IF Len(remove_pages) >= Len(doc_pages)
    THEN Raises("PDF page removal failed: Cannot remove all pages from PDF")
    ELSE Returns("Successfully removed " \o str(Len(remove_pages)) \o " pages from PDF.",
                 DeleteLoop(doc_pages, reversed_sorted(remove_pages), 1, Len(doc_pages)))

remove_pdf_pages(lib, doc_pages, pages_to_remove) ==
    remove_parsed(lib, doc_pages, parse_page_range(pages_to_remove, Len(doc_pages)).pages)

\* the 0-indexed position for an insertion_point that int() has read
insert_number(insert_at, main_pages) ==
    IF insert_at.error # "" THEN main_pages
    ELSE IF insert_at.val < 1 THEN 0
    ELSE IF insert_at.val > main_pages THEN main_pages
    ELSE insert_at.val - 1

\* the 0-indexed position add_pdf_pages inserts at
insert_position(insertion_point, main_pages) ==
    IF insertion_point = "start" THEN 0
    ELSE IF insertion_point = "end" THEN main_pages
    ELSE insert_number(int(insertion_point), main_pages)

\* add_pdf_pages once the position is known
add_at(lib, main_doc, add_doc, insert_at) ==
    IF lib # "ok" THEN LibraryRaises(lib, "PDF page addition")
    ELSE IF add_doc = <<>>
    THEN Raises("PDF page addition failed: No pages to add from second PDF")
    ELSE Returns("Successfully added " \o str(Len(add_doc)) \o " pages to PDF at position "
                     \o str(insert_at + 1) \o ".",
                 SubSeq(main_doc, 1, insert_at) \o add_doc
                     \o SubSeq(main_doc, insert_at + 1, Len(main_doc)))

add_pdf_pages(lib, main_doc, add_doc, insertion_point) ==
    add_at(lib, main_doc, add_doc, insert_position(insertion_point, Len(main_doc)))

\* the rotate branch of main once int() has read the angle
rotate_operation(p, rotation_angle) ==
    IF rotation_angle.error # ""
    THEN Raises("invalid literal for int() with base 10: '" \o p.angle \o "'")
    ELSE rotate_pdf_pages(p.primary, Document("input", p.page_count),
                          rotation_angle.val,
                          IF p.argc > 5 THEN p.page_string ELSE "")

\* the branch of main for the operation named by sys.argv[1]
page_operation(p) ==
    IF p.operation = "rotate"
    THEN IF p.argc < 5
         THEN Raises("Usage: python pdf_page_manager.py rotate <input> <output> <angle> [pages]")
         ELSE rotate_operation(p, int(p.angle))
    ELSE IF p.operation = "remove"
    THEN IF p.argc < 5
         THEN Raises("Usage: python pdf_page_manager.py remove <input> <output> <pages>")
         ELSE remove_pdf_pages(p.primary, Document("input", p.page_count), p.page_string)
    ELSE IF p.operation = "add"
    THEN IF p.argc < 5
         THEN Raises("Usage: python pdf_page_manager.py add <main_pdf> <add_pdf> <output> [position]")
         ELSE add_pdf_pages(p.primary, Document("main_pdf", p.page_count),
                            Document("add_pdf", p.add_pages),
                            IF p.argc > 5 THEN p.insertion_point ELSE "end")
    ELSE Raises("Unknown operation: " \o p.operation)

\* the result is printed; an exception is printed and the exit status is 1
print_outcome(r) ==
    IF r.error # "" THEN [out |-> <<Failure(r.error)>>, status |-> 1]
    ELSE [out |-> <<r.result>>, status |-> 0]

\* main of pdf_page_manager.py
main_pdf_page_manager(p) ==
    IF p.argc < 2 THEN [out |-> <<Failure("Invalid arguments")>>, status |-> 1]
    ELSE print_outcome(page_operation(p))

\* the invocations of the model
Outcomes == {"ok", "ImportError", "Exception"}

AdvancedProcs ==
    [script : {"pdf_to_word_advanced"}, argc : {2, 3}, exists : BOOLEAN, ext_ok : {TRUE},
     primary : Outcomes, fallback : {"ok", "Exception"},
     angle : {""}, page_string : {""}, page_count : {0},
     doc : {NoPdf}, operation : {""}, add_pages : {0}, insertion_point : {""}]

WordProcs ==
    [script : {"word_to_pdf_converter"}, argc : {2, 3}, exists : BOOLEAN, ext_ok : BOOLEAN,
     primary : Outcomes, fallback : {"ok", "Exception"},
     angle : {""}, page_string : {""}, page_count : {0},
     doc : {NoPdf}, operation : {""}, add_pages : {0}, insertion_point : {""}]

PageStrings == {"", " ", "1", "2,1", " 1 - 2 ", "3", "2-1", "x", "0", "1-", ",", "1--2"}

RotateProcs ==
    [script : {"rotate_pdf_converter"}, argc : {3, 4, 5}, exists : BOOLEAN, ext_ok : BOOLEAN,
     primary : {"ok", "Exception"}, fallback : {"ok"},
     angle : {"90", "270", "45", "x"}, page_string : PageStrings, page_count : 0..2,
     doc : {NoPdf}, operation : {""}, add_pages : {0}, insertion_point : {""}]

ConverterProcs ==
    [script : {"pdf_converter"}, argc : {2, 3}, exists : {TRUE}, ext_ok : {TRUE},
     primary : {"ok"}, fallback : {"ok"},
     angle : {""}, page_string : {""}, page_count : {0},
     doc : Pdfs, operation : {""}, add_pages : {0}, insertion_point : {""}]

\* a call of pdf_page_manager.py; argc is 1 for a call without arguments
ManagerProc(argc, operation, primary, angle, page_string, page_count,
            add_pages, insertion_point) ==
    [script |-> "pdf_page_manager", argc |-> argc, exists |-> TRUE, ext_ok |-> TRUE,
     primary |-> primary, fallback |-> "ok",
     angle |-> angle, page_string |-> page_string, page_count |-> page_count,
     doc |-> NoPdf, operation |-> operation, add_pages |-> add_pages,
     insertion_point |-> insertion_point]

RemoveStrings == {"", "1", "2", "1,2", "1-3", "2-3", "3,1", "4", "x"}

ManagerProcs ==
    {ManagerProc(1, "", "ok", "", "", 0, 0, ""),
     ManagerProc(2, "merge", "ok", "", "", 0, 0, "")}
    \cup {ManagerProc(argc, "rotate", lib, angle, s, n, 0, "") :
              argc \in {4, 5, 6}, lib \in Outcomes, angle \in {"90", "45", "x"},
              s \in {"", "1", "3", "x"}, n \in 0..2}
    \cup {ManagerProc(argc, "remove", lib, "", s, n, 0, "") :
              argc \in {4, 5}, lib \in Outcomes, s \in RemoveStrings, n \in 0..3}
    \cup {ManagerProc(argc, "add", lib, "", "", n, m, at) :
              argc \in {4, 5, 6}, lib \in Outcomes, n \in 0..2, m \in 0..1,
              at \in {"start", "end", "0", "1", "2", "9", "x"}}

InitScript ==
    /\ ClassIdle
    /\ PipeInit
    /\ IdleExcept("script")
    /\ proc \in AdvancedProcs \cup WordProcs \cup RotateProcs
                \cup ConverterProcs \cup ManagerProcs
    /\ script_pc = "main"
    /\ stdout = <<>>
    /\ exit_status = NotExited

\* the process runs to its exit: it has printed r.out and exits with r.status
RunToExit(r) ==
    /\ script_pc = "main"
    /\ stdout' = stdout \o r.out
    /\ exit_status' = r.status
    /\ script_pc' = "exited"
    /\ UNCHANGED <<proc, scriptOther>>

RunPdfToWordAdvanced ==
    proc.script = "pdf_to_word_advanced" /\ RunToExit(main_pdf_to_word_advanced(proc))

RunWordToPdf ==
    proc.script = "word_to_pdf_converter" /\ RunToExit(main_word_to_pdf_converter(proc))

RunRotatePdf ==
    proc.script = "rotate_pdf_converter" /\ RunToExit(main_rotate_pdf_converter(proc))

RunPdfConverter ==
    proc.script = "pdf_converter" /\ RunToExit(main_pdf_converter(proc))

RunPdfPageManager ==
    proc.script = "pdf_page_manager" /\ RunToExit(main_pdf_page_manager(proc))

NextScript ==
    \/ RunPdfToWordAdvanced
    \/ RunWordToPdf
    \/ RunRotatePdf
    \/ RunPdfConverter
    \/ RunPdfPageManager

SpecScript == InitScript /\ [][NextScript]_vars

-----------------------------------------------------------------------------
(* Properties of the classifiers (checked under SpecClassify)              *)

LineTypes == {"name", "contact", "section_header", "job_title", "company_date",
              "list_item", "numbered_item", "paragraph"}

\* the rule vocabulary of the specification, written on the line text
HasAt(l) == Contains(l, "@")
HasRoleKeyword(l) ==
    anyIn({"designer", "developer", "engineer", "manager", "analyst"}, lower(l))
HasOrgWord(l) ==
    \E k \in 1..Len(split(l)) :
        lower(split(l)[k]) \in {"solutions", "technologies", "systems", "inc", "ltd"}
HasSectionKeyword(l) ==
    anyIn({"work experience", "experience", "education", "skills", "projects",
           "summary", "objective"}, lower(l))
HasContactIndicator(l) == anyIn({"@", "http", "linkedin", "behance"}, lower(l))
HasFourDigitYear(l) == \E k \in 1..Len(l) : DigitsAt(l, k, 4)
HasOrgOrTemporalKeyword(l) ==
    anyIn({"solutions", "technologies", "present", "remote"}, lower(l))
StartsWithBullet(l) == Ch(l, 1) \in {"~", "^", "$", "|", ">", "=", "-", "*"}
HasSectionWord(l, sectionWords) ==
    \E k \in 1..Len(split(l)) : lower(split(l)[k]) \in sectionWords
\* short title-case text of at most n words
ShortTitleCase(l, n) == Len(split(l)) <= n /\ istitle(l)
\* the textual name pattern of classify_resume_line
AlphabeticName(l) ==
    /\ ShortTitleCase(l, 3)
    /\ \A k \in 1..Len(l) : isalphaChar(Ch(l, k)) \/ Ch(l, k) \in {" ", "."}
    /\ ~HasSectionWord(l, {"experience", "education", "skills", "summary"})

\* C1: classify_resume_line gives every non-empty trimmed line, with either
\* value of the first-line flag, one type of the enumerated set.
C1_Totality == res_resume # "pending" => res_resume \in LineTypes

C1_Witness == res_resume = "company_date" /\ ~is_first_line

\* C2: the very first line of a document, when it is short title-case text,
\* classifies as name whatever other keyword its text matches.
C2_FirstLineIsName ==
    (is_first_line /\ ShortTitleCase(line, 3)) =>
        /\ res_resume \in {"pending", "name"}
        /\ res_word \in {"pending", "name"}

C2_Witness ==
    /\ is_first_line /\ ShortTitleCase(line, 3) /\ HasAt(line)
    /\ res_resume = "name" /\ res_word = "name"

C5_YearAndOrgIsCompanyDate ==
    (~is_first_line /\ HasFourDigitYear(line) /\ HasOrgOrTemporalKeyword(line)) =>
        res_resume \in {"pending", "company_date"}

\* C6: a line that starts with a bullet glyph classifies as list_item
\* whatever else its text contains.
C6_BulletIsListItem ==
    (~is_first_line /\ StartsWithBullet(line)) =>
        /\ res_resume \in {"pending", "list_item"}
        /\ res_html \in {"pending", "bullet_point"}

\* C7 as stated: a non-first line with a role keyword, at most 4 words, no
\* digit and no organizational word classifies as job_title.
C7_RoleLineIsJobTitle ==
    (/\ ~is_first_line
     /\ HasRoleKeyword(line)
     /\ Len(split(line)) <= 4
     /\ ~anyDigit(line)
     /\ ~HasOrgWord(line)) =>
        res_resume \in {"pending", "job_title"}

\* C7 amended: such a line classifies as job_title by classify_resume_line
\* when none of the earlier rules takes it: it is not short alphabetic
\* title-case text (name), has no contact indicator and no section keyword.
C7_RoleLineIsJobTitleAfterEarlierRules ==
    (/\ ~is_first_line
     /\ HasRoleKeyword(line)
     /\ Len(split(line)) <= 4
     /\ ~anyDigit(line)
     /\ ~HasOrgWord(line)
     /\ ~AlphabeticName(line)
     /\ ~HasContactIndicator(line)
     /\ ~HasSectionKeyword(line)) =>
        res_resume \in {"pending", "job_title"}

C7_Witness ==
    /\ ~is_first_line /\ line = "UI/UX Designer" /\ res_resume = "job_title"

-----------------------------------------------------------------------------
(* Properties of extraction and merge (checked under Spec)                 *)

Returned == pc = "returned"

\* the space-joined texts of the input positions a..b
SpanText(a, b) == join([k \in 1..(b - a + 1) |-> structured_content[a + k - 1].text])

\* C4: a non-first line "EDUCATION" leaves extraction and merge as a
\* section_header node with heading level 1.
C4_EducationLevelOne ==
    Returned =>
        \A n \in DOMAIN merged :
            (merged[n].text = "EDUCATION" /\ merged[n].type # "name") =>
                (merged[n].type = "section_header" /\ Get(merged[n], "level") = 1)

\* C8: a paragraph node takes in every following paragraph line while the
\* space-joined length stays under 500, so two consecutive paragraph lines
\* under 500 are one node; the line that would bring it to 500 or more is
\* left out and starts the next node.
C8_ParagraphMergeBound ==
    Returned =>
        \A n \in DOMAIN merged :
            merged[n].type = "paragraph" =>
                LET a == spans[n].first
                    b == spans[n].last
                IN  /\ merged[n].text = SpanText(a, b)
                    /\ \A k \in a..b : structured_content[k].type = "paragraph"
                    /\ b > a => Len(merged[n].text) < 500
                    /\ (b < Len(structured_content)
                          /\ structured_content[b + 1].type = "paragraph") =>
                           /\ Len(merged[n].text) + 1
                                + Len(structured_content[b + 1].text) >= 500
                           /\ spans[n + 1].first = b + 1

C8_Witness ==
    /\ Returned
    /\ \E n \in DOMAIN merged :
        /\ merged[n].type = "paragraph"
        /\ spans[n].last > spans[n].first
        /\ spans[n].last < Len(structured_content)
        /\ structured_content[spans[n].last + 1].type = "paragraph"

\* C9: no node built from two or more contact lines has a text of 500
\* characters or more.
C9_ContactMergeBound ==
    Returned =>
        \A n \in DOMAIN merged :
            (merged[n].type = "contact" /\ spans[n].last > spans[n].first) =>
                Len(merged[n].text) < 500

\* C10: every line whose type is neither contact nor paragraph is exactly
\* one output node, with its text and type unchanged.
C10_OtherTypesKept ==
    Returned =>
        \A k \in DOMAIN structured_content :
            structured_content[k].type \notin {"contact", "paragraph"} =>
                /\ Cardinality({n \in DOMAIN merged :
                                  spans[n].first <= k /\ k <= spans[n].last}) = 1
                /\ \E n \in DOMAIN merged :
                    /\ spans[n] = [first |-> k, last |-> k]
                    /\ merged[n].text = structured_content[k].text
                    /\ merged[n].type = structured_content[k].type

C10_Witness ==
    /\ Returned
    /\ \E k \in DOMAIN structured_content :
        /\ k + 1 \in DOMAIN structured_content
        /\ structured_content[k].type = "list_item"
        /\ structured_content[k + 1].type = "list_item"
        /\ \E n \in DOMAIN merged :
            spans[n].first = k + 1 /\ merged[n].type = "list_item"

\* the texts of a content list, in order
TextsOf(content_list) == [k \in DOMAIN content_list |-> content_list[k].text]

\* C12: merge_related_content drops, duplicates and reorders nothing: the
\* output texts joined with single spaces are the input texts joined with
\* single spaces.
C12_MergeKeepsText ==
    Returned => join(TextsOf(merged)) = join(TextsOf(structured_content))

C12_Witness ==
    /\ Returned
    /\ Len(structured_content) = 3
    /\ Len(merged) = 2
    /\ \E n \in DOMAIN merged :
        merged[n].type = "contact" /\ spans[n].last > spans[n].first

-----------------------------------------------------------------------------
(* Properties of the page loop (checked under SpecPaged)                   *)

\* C13: no node of the returned list combines lines of two different pages.
C13_NoCrossPageNode ==
    Returned =>
        \A n \in DOMAIN merged :
            src_pos[spans[n].first].page_num = src_pos[spans[n].last].page_num

\* the entries typed name whose text does not match the textual name pattern
NamedByPosition ==
    {k \in DOMAIN structured_content :
        /\ structured_content[k].type = "name"
        /\ ~AlphabeticName(structured_content[k].text)}

\* C14: the positional name rule applies to the first line of the document
\* only: no line of a later page is typed name by its position, and at most
\* one entry of a document is typed name by position.
C14_NameOnlyFirstLineOfDocument ==
    /\ \A k \in NamedByPosition : src_pos[k].page_num = 0
    /\ Cardinality(NamedByPosition) <= 1

-----------------------------------------------------------------------------
(* Further properties of the classifiers (checked under SpecClassify)      *)

\* C19: get_heading_level returns 1 exactly when the text contains
\* "experience", "education" or "skills" in any letter case, and 2 otherwise.
C19_HeadingLevel ==
    res_level # None =>
        /\ res_level \in {1, 2}
        /\ res_level = 1 <=>
               \E w \in {"experience", "education", "skills"} : Contains(lower(line), w)

C19_Witness ==
    /\ res_level = 1
    /\ Contains(line, "EDUCATION")
    /\ ~Contains(line, "education")

\* no rule of classify_resume_line before the paragraph default applies
NoResumeRule(l, first) ==
    /\ ~ResumeIsName(l, split(l), first)
    /\ ~ResumeIsContact(l, lower(l), split(l))
    /\ ~ResumeIsSectionHeader(lower(l))
    /\ ~ResumeIsJobTitle(l, lower(l), split(l))
    /\ ~ResumeIsCompanyDate(l, lower(l))
    /\ ~ResumeIsListItem(l)

\* C15: a line that starts with a numbering prefix and matches none of the
\* rules for name, contact, section_header, job_title, company_date and
\* list_item is classified as numbered_item.
C15_NumberingPrefixIsNumberedItem ==
    (res_resume # "pending"
        /\ detect_numbered_item(line)
        /\ NoResumeRule(line, is_first_line)) =>
            res_resume = "numbered_item"

-----------------------------------------------------------------------------
(* Properties of parse_page_range (checked under SpecRange)                *)

\* the page-range string is empty or blank
BlankRange == strip(page_range_str) = ""

\* C20: for every page-range string and page count the call returns, never
\* raises; the list is strictly ascending with all elements in
\* 0..total_pages-1, and it is all the pages when the string is blank.
C20_PageRangeResult ==
    /\ range_pc # "raised"
    /\ range_pc = "returned" =>
        /\ \A k \in DOMAIN pages : pages[k] \in 0..(total_pages - 1)
        /\ \A k \in DOMAIN pages : k + 1 \in DOMAIN pages => pages[k] < pages[k + 1]
        /\ BlankRange => pages = [k \in 1..total_pages |-> k - 1]

C20_Witness ==
    /\ range_pc = "returned"
    /\ page_range_str = "2,x1"
    /\ total_pages = 2
    /\ pages = <<1>>

-----------------------------------------------------------------------------
(* Properties of convert_pdf_to_word (checked under SpecConvert)           *)

ConvDone == conv_pc = "done"

\* page extraction yields no line of text on any page of the file
ZeroLines(f) ==
    \A p \in DOMAIN f.pages : \A k \in DOMAIN f.pages[p] : strip(f.pages[p][k]) = ""

\* the failure results that report missing text or content
NoTextFailures ==
    {Failure("No text found in PDF. The PDF may be image-based or encrypted."),
     Failure("No substantial text content found in PDF")}

\* C11 as stated: when page extraction yields zero lines for every page,
\* the classifier and merge pass produce no node, the result is a "no
\* text/content" failure and no document is written.
C11_ZeroLinesIsFailure ==
    (ConvDone /\ pdf.exists /\ ~pdf.plumber_fails /\ ZeroLines(pdf)) =>
        /\ extract_text_with_pdfplumber(pdf) = ListValue(<<>>)
        /\ result \in NoTextFailures
        /\ written = <<>>

\* C11 amended: when page extraction yields zero lines for every page, the
\* classifier and merge pass produce no node and the PyMuPDF fallback is
\* tried; when the fallback yields no paragraph either, the result is the
\* "No text found" failure, the writer is not called and no document is
\* written.
C11_ZeroLinesAndNoFallbackIsFailure ==
    (ConvDone /\ pdf.exists /\ ~pdf.plumber_fails /\ ZeroLines(pdf)) =>
        /\ extract_text_with_pdfplumber(pdf) = ListValue(<<>>)
        /\ calls[1] = "pdfplumber" /\ calls[2] = "pymupdf"
        /\ (pdf.pymupdf_fails \/ extract_text_with_pymupdf(pdf).list = <<>>) =>
              /\ result = Failure("No text found in PDF. The PDF may be image-based or encrypted.")
              /\ calls = <<"pdfplumber", "pymupdf">>
              /\ written = <<>>

C11_Witness ==
    /\ ConvDone
    /\ pdf.exists /\ ~pdf.plumber_fails /\ ~pdf.pymupdf_fails
    /\ pdf.pages = << <<"   ", "">>, <<"">> >>
    /\ pdf.blocks = << <<ImageBlock>> >>
    /\ result.success = FALSE

\* some line of the file has more than 8 characters after trimming
HasSubstantialLine(f) ==
    \E p \in DOMAIN f.pages : \E k \in DOMAIN f.pages[p] : Len(strip(f.pages[p][k])) > 8

HasBlankLine(f) ==
    \E p \in DOMAIN f.pages : \E k \in DOMAIN f.pages[p] : strip(f.pages[p][k]) = ""

\* C16: every node handed to the document writer has trimmed text of more
\* than 8 characters; blank lines are dropped and cause no error result: a
\* file with a substantial line converts whenever the extractor and the
\* writer work.
C16_WriterGetsSubstantialText ==
    /\ conv_pc \in {"writer", "done"} =>
          \A k \in DOMAIN meaningful_content :
              /\ strip(meaningful_content[k].text) # ""
              /\ Len(strip(meaningful_content[k].text)) > 8
    /\ written \in {<<>>, meaningful_content}
    /\ (ConvDone /\ pdf.exists /\ ~pdf.plumber_fails /\ ~pdf.writer_fails
          /\ HasSubstantialLine(pdf)) => result.success

C16_Witness ==
    /\ ConvDone
    /\ HasBlankLine(pdf)
    /\ result.success
    /\ written # <<>>
    /\ Len(written) < Len(conv_content.list)

\* how often a collaborator was called
TimesCalled(name) == Cardinality({k \in DOMAIN calls : calls[k] = name})

\* some item of a list of texts has more than 8 characters after trimming
SomeSubstantial(texts) == \E k \in DOMAIN texts : Len(strip(texts[k])) > 8

\* what the two extractors return for the file, as lists of texts
PlumberTexts(f) ==
    LET r == extract_text_with_pdfplumber(f)
    IN  [k \in DOMAIN r.list |-> r.list[k].text]
MuTexts(f) == extract_text_with_pymupdf(f).list

\* C26: convert_pdf_to_word calls each collaborator at most once; it calls
\* the PyMuPDF extractor only after the pdfplumber extractor returned None
\* or an empty list, and the document writer last, only after an extractor
\* returned an item of more than 8 characters.
C26_NoRetryAndOrder ==
    /\ \A name \in {"pdfplumber", "pymupdf", "writer"} : TimesCalled(name) <= 1
    /\ \A k \in DOMAIN calls :
        /\ calls[k] = "pymupdf" =>
              /\ k = 2 /\ calls[1] = "pdfplumber"
              /\ PlumberTexts(pdf) = <<>>
        /\ calls[k] = "writer" =>
              /\ k = Len(calls) /\ calls[1] = "pdfplumber"
              /\ SomeSubstantial(PlumberTexts(pdf)) \/
                    (calls[2] = "pymupdf" /\ SomeSubstantial(MuTexts(pdf)))

\* pdfplumber fails, the fallback finds text and the writer saves it
C26_Witness ==
    /\ ConvDone
    /\ pdf.plumber_fails
    /\ calls = <<"pdfplumber", "pymupdf", "writer">>
    /\ result.success

-----------------------------------------------------------------------------
(* Properties of the script entry points (checked under SpecScript)        *)

Exited == script_pc = "exited"

\* C17: every invocation of a converter script has printed exactly one JSON
\* result object, with success true or false, when it exits.
C17_ExactlyOneResult ==
    Exited =>
        /\ Len(stdout) = 1
        /\ stdout[1].success \in BOOLEAN

\* primary conversion fails, the fallback succeeds
C17_Witness ==
    /\ Exited
    /\ proc.script = "word_to_pdf_converter"
    /\ proc.primary = "Exception" /\ proc.fallback = "ok"
    /\ stdout = <<Success("Word document converted to PDF using fallback method")>>

\* the last JSON object the process printed
EmittedResult == stdout[Len(stdout)]

\* C27: when a script exits, its exit status is 0 exactly when the result
\* it printed has success true, and non-zero when it has success false.
C27_ExitStatusAgrees ==
    Exited => (exit_status = 0 <=> EmittedResult.success)

-----------------------------------------------------------------------------
(* The paragraph-break deciders of pdf_converter.py                        *)
(* Font sizes are whole points, so the delta of the source stays 2.        *)

\* the glyphs of '•▪▫◦‣⁃'
ListGlyphs == {"~", "^", "$", "|", ">", "="}

detect_list_item(text) ==
    LET text_stripped == strip(text)
    IN  \/ startswith(text_stripped, "~")
        \/ startswith(text_stripped, "-")
        \/ startswith(text_stripped, "*")
        \/ (Len(text_stripped) > 0 /\ Ch(text_stripped, 1) \in ListGlyphs)

\* re.search(r'\b(19|20)\d{2}\b', s)
SearchYear(s) ==
    \E k \in 1..Len(s) :
        /\ WordBoundary(s, k)
        /\ k + 1 <= Len(s)
        /\ SubSeq(s, k, k + 1) \in {"19", "20"}
        /\ DigitsAt(s, k + 2, 2)
        /\ WordBoundary(s, k + 4)

\* re.search(r'\b(Jan|...|Dec)\b', s, re.IGNORECASE)
SearchMonth(s) ==
    \E k \in 1..Len(s) :
        /\ WordBoundary(s, k)
        /\ k + 2 <= Len(s)
        /\ SubSeq(lower(s), k, k + 2) \in {lower(m) : m \in Months}
        /\ WordBoundary(s, k + 3)

\* re.search(r'\b\d{1,2}[/-]\d{1,2}[/-]\d{2,4}\b', s)
SearchDate(s) ==
    \E k \in 1..Len(s) : \E d \in 1..2, m \in 1..2, y \in 2..4 :
        /\ WordBoundary(s, k)
        /\ DigitsAt(s, k, d)
        /\ Ch(s, k + d) \in {"/", "-"}
        /\ DigitsAt(s, k + d + 1, m)
        /\ Ch(s, k + d + 1 + m) \in {"/", "-"}
        /\ DigitsAt(s, k + d + m + 2, y)
        /\ WordBoundary(s, k + d + m + 2 + y)

contains_date_pattern(s) == SearchYear(s) \/ SearchMonth(s) \/ SearchDate(s)

abs(x) == IF x < 0 THEN 0 - x ELSE x

\* range(2020, 2025) as strings
RecentYears == {str(year) : year \in 2020..2024}

\* the rules of should_start_new_paragraph_enhanced that read only the text
EnhancedIsJobTitle(text) ==
    /\ anyIn({"ui/ux designer", "designer", "developer"}, lower(text))
    /\ Len(split(text)) <= 4
    /\ ~anyDigit(text)

EnhancedIsCompanyDate(text) ==
    /\ anyIn(RecentYears, text)
    /\ anyIn({"solutions", "technologies", "present", "remote"}, lower(text))

EnhancedIsSectionHeader(text) ==
    anyIn({"work experience", "education", "skills"}, lower(text))

should_start_new_paragraph_enhanced(line_data, current_paragraph) ==
    IF current_paragraph = <<>> THEN FALSE
    ELSE
    LET last_line == current_paragraph[Len(current_paragraph)]
        text == line_data.text
        font_change == abs(line_data.font_size - last_line.font_size) > 2
        bold_change == line_data.is_bold # last_line.is_bold
    IN  IF detect_list_item(text) THEN TRUE
        ELSE IF EnhancedIsJobTitle(text) THEN TRUE
        ELSE IF EnhancedIsCompanyDate(text) THEN TRUE
        ELSE IF EnhancedIsSectionHeader(text) THEN TRUE
        ELSE font_change \/ bold_change

\* text and text[0].isupper(), as a truth value
starts_capital_any(text) == text # ""

starts_capital(text) == text # "" /\ isupper(Ch(text, 1))

\* last_text.rstrip().endswith(('.', '!', '?'))
sentence_end(last_text) ==
    \E mark \in {".", "!", "?"} : endswith(rstrip(last_text), mark)

is_clear_new_section(text) ==
    \/ anyIn({"work experience", "education", "skills", "projects"}, lower(text))
    \/ (contains_date_pattern(text)
            /\ anyIn({"designer", "developer", "engineer"}, lower(text)))
    \/ (endswith(text, ":") /\ Len(split(text)) <= 5)

should_start_new_paragraph_delta3(line_data, current_paragraph) ==
    IF current_paragraph = <<>> THEN FALSE
    ELSE
    LET last_line == current_paragraph[Len(current_paragraph)]
        significant_font_size_change ==
            abs(line_data.font_size - last_line.font_size) > 3
        bold_change == line_data.is_bold # last_line.is_bold
        text == line_data.text
        last_text == last_line.text
    IN  \/ significant_font_size_change
        \/ (bold_change /\ is_clear_new_section(text))
        \/ (sentence_end(last_text) /\ starts_capital(text)
                /\ Len(current_paragraph) > 2)

should_start_new_paragraph(line_data, current_paragraph) ==
    IF current_paragraph = <<>> THEN FALSE
    ELSE
    LET last_line == current_paragraph[Len(current_paragraph)]
        significant_font_size_change ==
            abs(line_data.font_size - last_line.font_size) > 2
        bold_change == line_data.is_bold # last_line.is_bold
        text == line_data.text
        last_text == last_line.text
    IN  \/ significant_font_size_change
        \/ (bold_change /\ is_clear_new_section(text))
        \/ (sentence_end(last_text) /\ starts_capital(text)
                /\ Len(current_paragraph) > 2)

\* the longest accumulation the deciders are called with
MaxAccum == 3

BreakTexts ==
    {"", "- item one", "~ item", "* item", "$ item", "  - indented",
     "plain text", "Next sentence", "next one", "Skills:", "Projects",
     "Notes:", "One two three four five six:", "Developer Jan 2021",
     "UI/UX Designer", "Acme Solutions 2021", "Engineer 12/01/21",
     "Designer in 19999"}

LastTexts == {"ends here.", "no end", "what?  ", "wow!"}

LineFontSizes == {9, 10, 12, 14, 15}
LastFontSizes == {12, 13}

\* an earlier line of the accumulation; the deciders read only the last one
EarlierLine == Line("earlier line", 12, FALSE)

Accumulations ==
    {<<>>} \cup
    {[k \in 1..n |-> IF k = n THEN Line(t, f, b) ELSE EarlierLine] :
        n \in 1..MaxAccum, t \in LastTexts, f \in LastFontSizes, b \in BOOLEAN}

InitBreak ==
    /\ ClassIdle
    /\ PipeInit
    /\ IdleExcept("break")
    /\ cur_line \in {Line(t, f, b) : t \in BreakTexts, f \in LineFontSizes, b \in BOOLEAN}
    /\ accum \in Accumulations
    /\ decided = {}
    /\ breaks = {}

Decide(name, answer) ==
    /\ name \notin decided
    /\ decided' = decided \cup {name}
    /\ breaks' = IF answer THEN breaks \cup {name} ELSE breaks
    /\ UNCHANGED <<cur_line, accum, breakOther>>

CallEnhanced ==
    Decide("should_start_new_paragraph_enhanced",
           should_start_new_paragraph_enhanced(cur_line, accum))

CallConservative ==
    Decide("should_start_new_paragraph",
           should_start_new_paragraph(cur_line, accum))

NextBreak == CallEnhanced \/ CallConservative

SpecBreak == InitBreak /\ [][NextBreak]_vars

-----------------------------------------------------------------------------
(* Properties of the paragraph-break deciders (checked under SpecBreak)    *)

Enhanced == "should_start_new_paragraph_enhanced"
Conservative == "should_start_new_paragraph"

LastLine == accum[Len(accum)]

\* the trimmed text starts with a list glyph, a hyphen or an asterisk
IsListItem(t) == Ch(strip(t), 1) \in ListGlyphs \cup {"-", "*"}

FontDelta == abs(cur_line.font_size - LastLine.font_size)
BoldToggle == cur_line.is_bold # LastLine.is_bold

\* the previous line ends with '.', '!' or '?' (trailing blanks apart)
EndsSentence(t) == Ch(rstrip(t), Len(rstrip(t))) \in {".", "!", "?"}
StartsUpper(t) == isupper(Ch(t, 1))

\* the three conditions of the sentence-end rule
SentenceEndCondition ==
    EndsSentence(LastLine.text) /\ StartsUpper(cur_line.text) /\ Len(accum) > 2

\* a rule of the enhanced decider that reads only the text applies
EnhancedTextRule(t) ==
    EnhancedIsJobTitle(t) \/ EnhancedIsCompanyDate(t) \/ EnhancedIsSectionHeader(t)

\* C21: with a non-empty accumulation every detected list item starts a new
\* node, in should_start_new_paragraph and in
\* should_start_new_paragraph_enhanced alike.
C21_ListItemAlwaysBreaks ==
    (accum # <<>> /\ IsListItem(cur_line.text)) => decided \subseteq breaks

\* C22: a toggle of boldness with a font-size difference of at most 2, no
\* sentence-end condition and no clear-new-section pattern (and no list
\* item or other text rule) does not start a new node in either decider.
C22_BoldToggleAloneDoesNotBreak ==
    (/\ accum # <<>>
     /\ BoldToggle
     /\ FontDelta <= 2
     /\ ~SentenceEndCondition
     /\ ~is_clear_new_section(cur_line.text)
     /\ ~IsListItem(cur_line.text)
     /\ ~EnhancedTextRule(cur_line.text)) => breaks = {}

\* C23: with a non-empty accumulation a font-size difference of more than 2
\* starts a new node in both deciders; a difference of at most 2 starts
\* none when no other rule applies; with an empty accumulation neither
\* decider reports a break.
C23_FontDeltaRule ==
    /\ (accum # <<>> /\ FontDelta > 2) => decided \subseteq breaks
    /\ (/\ accum # <<>>
        /\ FontDelta <= 2
        /\ ~BoldToggle
        /\ ~SentenceEndCondition
        /\ ~IsListItem(cur_line.text)
        /\ ~EnhancedTextRule(cur_line.text)) => breaks = {}
    /\ accum = <<>> => breaks = {}

\* both deciders break on a difference of 3 and nothing else
C23_Witness ==
    /\ decided = {Enhanced, Conservative}
    /\ breaks = decided
    /\ Len(accum) = 1
    /\ FontDelta = 3
    /\ ~BoldToggle
    /\ cur_line.text = "plain text"

\* C24: when neither the font rule nor the bold rule applies,
\* should_start_new_paragraph starts a new node only if the previous line
\* ends a sentence, the line starts with an uppercase letter and the
\* accumulation has more than 2 lines; with 1 or 2 accumulated lines and no
\* formatting change it starts none.
C24_SentenceEndRule ==
    /\ (/\ Conservative \in breaks
        /\ FontDelta <= 2
        /\ ~(BoldToggle /\ is_clear_new_section(cur_line.text))) =>
            SentenceEndCondition
    /\ (/\ Len(accum) \in {1, 2}
        /\ FontDelta <= 2
        /\ ~BoldToggle) => Conservative \notin breaks

\* the rule fires on the third accumulated line
C24_Witness ==
    /\ Conservative \in breaks
    /\ Len(accum) = 3
    /\ LastLine.text = "what?  "
    /\ cur_line.text = "Next sentence"
    /\ FontDelta = 0
    /\ ~BoldToggle

-----------------------------------------------------------------------------
(* extract_formatted_lines of pdf_converter.py                             *)
(* A vertical coordinate y0 is a whole number of sixteenths of a unit      *)
(* (exact in binary floating point) and a key is a whole number of tenths; *)
(* y0 is the height above the bottom of the page, as pdfplumber reports    *)
(* it.  A missing size is 0 and a missing fontname is "", both of which    *)
(* the source skips like the missing key.                                  *)

\* round(y0, 1): to the nearest tenth, a tie to the even tenth
round1(y0) ==
    LET t == (5 * y0) \div 8
        rem == (5 * y0) % 8
    IN  IF rem < 4 THEN t
        ELSE IF rem > 4 THEN t + 1
        ELSE IF t % 2 = 0 THEN t ELSE t + 1

\* lines[y]: the positions of the characters with key y, in input order
RECURSIVE lines_of(_, _, _)
lines_of(chars, y, k) ==
    IF k > Len(chars) THEN <<>>
    ELSE (IF round1(chars[k].y0) = y THEN <<k>> ELSE <<>>) \o lines_of(chars, y, k + 1)

line_chars_unsorted(chars, idxs) == idxs

\* sorted(lines[y], key=lambda c: c['x0']), which is stable
RECURSIVE line_chars(_, _)
line_chars(chars, idxs) ==
    IF idxs = <<>> THEN <<>>
    ELSE LET p == CHOOSE p \in 1..Len(idxs) :
                    /\ \A q \in 1..Len(idxs) : chars[idxs[q]].x0 >= chars[idxs[p]].x0
                    /\ \A q \in 1..(p - 1) : chars[idxs[q]].x0 > chars[idxs[p]].x0
         IN  <<idxs[p]>> \o
             line_chars(chars, SubSeq(idxs, 1, p - 1) \o SubSeq(idxs, p + 1, Len(idxs)))

\* ''.join(list)
RECURSIVE concat(_)
concat(list) == IF list = <<>> THEN "" ELSE list[1] \o concat(Tail(list))

RECURSIVE sum(_)
sum(list) == IF list = <<>> THEN 0 ELSE list[1] + sum(Tail(list))

\* the quotient num / den, kept as a fraction
Quotient(num, den) == [num |-> num, den |-> den]

\* the list of f(c) for the characters c of the line that satisfy keep
RECURSIVE collect(_, _, _)
collect(chars, idxs, field) ==
    IF idxs = <<>> THEN <<>>
    ELSE LET c == chars[idxs[1]]
         IN  (IF field = "size"
                 THEN (IF c.size # 0 THEN <<c.size>> ELSE <<>>)
                 ELSE (IF c.fontname # "" THEN <<c.fontname>> ELSE <<>>))
             \o collect(chars, Tail(idxs), field)

\* the dict appended for the key y
formatted_line(chars, y) ==
    LET members == line_chars(chars, lines_of(chars, y, 1))
        line_text == concat([k \in 1..Len(members) |-> chars[members[k]].text])
        font_sizes == collect(chars, members, "size")
        font_names == collect(chars, members, "fontname")
        avg_font_size == IF font_sizes # <<>>
                         THEN Quotient(sum(font_sizes), Len(font_sizes))
                         ELSE Quotient(12, 1)
    IN  [text |-> strip(line_text),
         font_size |-> avg_font_size,
         is_bold |-> \E k \in 1..Len(font_names) : Contains(lower(font_names[k]), "bold"),
         y_position |-> y,
         char_count |-> Len(members)]

\* the keys in the order of the returned list
line_keys(chars) == sorted_reverse({round1(chars[k].y0) : k \in 1..Len(chars)})

extract_formatted_lines(chars) ==
    IF chars = <<>> THEN <<>>
    ELSE LET keys == line_keys(chars)
         IN  [n \in 1..Len(keys) |-> formatted_line(chars, keys[n])]

\* ghost: line_chars of each returned line
formatted_members(chars) ==
    LET keys == line_keys(chars)
    IN  [n \in 1..Len(keys) |-> line_chars(chars, lines_of(chars, keys[n], 1))]

\* the longest character list
MaxChars == 3

\* a letter, a bold letter and a blank without font attributes
Glyphs ==
    {[text |-> "a", size |-> 10, fontname |-> "Arial"],
     [text |-> "b", size |-> 14, fontname |-> "Arial-BoldMT"],
     [text |-> " ", size |-> 0, fontname |-> ""]}

X0s == {1, 2}
\* 0.1875 and 0.25 round to 0.2, 0.75 rounds to 0.8
Y0s == {3, 4, 12}

Char(g, x0, y0) ==
    [text |-> g.text, size |-> g.size, fontname |-> g.fontname, x0 |-> x0, y0 |-> y0]

CharRecords == {Char(g, x, y) : g \in Glyphs, x \in X0s, y \in Y0s}

InitFormat ==
    /\ ClassIdle
    /\ PipeInit
    /\ IdleExcept("format")
    /\ page_chars \in UNION {[1..n -> CharRecords] : n \in 0..MaxChars}
    /\ fl_pc = "call"
    /\ sorted_lines = <<>>
    /\ line_members = <<>>

ExtractFormattedLines ==
    /\ fl_pc = "call"
    /\ sorted_lines' = extract_formatted_lines(page_chars)
    /\ line_members' = IF page_chars = <<>> THEN <<>> ELSE formatted_members(page_chars)
    /\ fl_pc' = "returned"
    /\ UNCHANGED <<page_chars, formatOther>>

NextFormat == ExtractFormattedLines

SpecFormat == InitFormat /\ [][NextFormat]_vars

-----------------------------------------------------------------------------
(* Properties of extract_formatted_lines (checked under SpecFormat)        *)

FormatReturned == fl_pc = "returned"

\* t tenths is a tenth nearest to y0 sixteenths
NearestTenth(y0, t) == 5 * y0 - 8 * t \in (0 - 4)..4

\* the concatenated fragments of the characters of returned line n
LineConcat(n) ==
    concat([k \in 1..Len(line_members[n]) |-> page_chars[line_members[n][k]].text])

\* every input character is in exactly one returned line, the one keyed by
\* its rounded vertical coordinate, and the line counts its characters
EveryCharInOneLine ==
    /\ Len(line_members) = Len(sorted_lines)
    /\ \A k \in 1..Len(page_chars) :
        \E n \in 1..Len(sorted_lines) :
            /\ \E p \in 1..Len(line_members[n]) : line_members[n][p] = k
            /\ NearestTenth(page_chars[k].y0, sorted_lines[n].y_position)
            /\ \A m \in 1..Len(sorted_lines) : \A p \in 1..Len(line_members[m]) :
                line_members[m][p] = k => m = n
    /\ \A n \in 1..Len(sorted_lines) :
        /\ sorted_lines[n].char_count = Len(line_members[n])
        /\ \A p, q \in 1..Len(line_members[n]) :
            line_members[n][p] = line_members[n][q] => p = q

\* within a line the characters are in ascending horizontal coordinate
AscendingX0 ==
    \A n \in 1..Len(line_members) : \A p \in 1..(Len(line_members[n]) - 1) :
        page_chars[line_members[n][p]].x0 <= page_chars[line_members[n][p + 1]].x0

\* top to bottom: the keys fall strictly along the returned list
KeysFall ==
    \A n \in 1..(Len(sorted_lines) - 1) :
        sorted_lines[n].y_position > sorted_lines[n + 1].y_position

\* C25 as stated: every character is in exactly one returned line keyed by
\* its rounded vertical coordinate, the text of a line is the concatenation
\* of its characters in ascending horizontal coordinate, and the keys are
\* strictly monotonic from top to bottom.
C25_LinesAreConcatenations ==
    FormatReturned =>
        /\ EveryCharInOneLine
        /\ AscendingX0
        /\ \A n \in 1..Len(sorted_lines) : sorted_lines[n].text = LineConcat(n)
        /\ KeysFall

\* C25: the same, the text of a line being that concatenation with leading
\* and trailing white space removed.
C25_LinesAreTrimmedConcatenations ==
    FormatReturned =>
        /\ EveryCharInOneLine
        /\ AscendingX0
        /\ \A n \in 1..Len(sorted_lines) : sorted_lines[n].text = strip(LineConcat(n))
        /\ KeysFall

\* two characters of different heights share the lower line, out of input
\* order, after a blank that the text drops
C25_Witness ==
    /\ FormatReturned
    /\ Len(sorted_lines) = 2
    /\ sorted_lines[1].y_position = 8
    /\ line_members[2] = <<3, 1>>
    /\ page_chars[1].y0 # page_chars[3].y0
    /\ page_chars[3].text = " "
    /\ sorted_lines[2].text = "a"
    /\ sorted_lines[2].char_count = 2

-----------------------------------------------------------------------------
(* remove_pdf_pages of pdf_page_manager.py, called on its own              *)

\* the most pages of a document
MaxDocPages == 3

RemoveArguments ==
    {"", " ", "1", "2", "3", "1,2", "2,1", "1-2", "2-3", "1-3", "1,3", "3,1",
     "1,1", "4", "0", "1,4", "x", "1,x", "2-1", "1-", "-1", "1-2,3", "2,3,1",
     "1 , 3", "0-2"}

InitRemove ==
    /\ ClassIdle
    /\ PipeInit
    /\ IdleExcept("remove")
    /\ rm_call \in [lib : {"ok", "ImportError", "Exception"},
                    page_count : 0..MaxDocPages,
                    pages_to_remove : RemoveArguments]
    /\ rm_pc = "call"
    /\ rm_outcome = [error |-> "", result |-> [pending |-> TRUE], saved |-> NoneValue]

CallRemovePdfPages ==
    /\ rm_pc = "call"
    /\ rm_outcome' = remove_pdf_pages(rm_call.lib, Document("input", rm_call.page_count),
                                      rm_call.pages_to_remove)
    /\ rm_pc' = IF rm_outcome'.error = "" THEN "returned" ELSE "raised"
    /\ UNCHANGED <<rm_call, removeOther>>

NextRemove == CallRemovePdfPages

SpecRemove == InitRemove /\ [][NextRemove]_vars

-----------------------------------------------------------------------------
(* Properties of remove_pdf_pages (checked under SpecRemove)               *)

\* the 1-indexed page numbers the argument selects
SelectedPages ==
    LET selection == parse_page_range(rm_call.pages_to_remove, rm_call.page_count).pages
    IN  {selection[k] + 1 : k \in DOMAIN selection}

\* the original pages that are not selected, in their original order
UnselectedPages ==
    SelectSeq(Document("input", rm_call.page_count),
              LAMBDA page : page.number \notin SelectedPages)

\* C28: when remove_pdf_pages succeeds, the saved document holds exactly
\* the original pages whose 1-indexed numbers were not selected, in their
\* original order, and at least one page; a selection that is empty or
\* covers every page fails and nothing is saved.
C28_RemoveKeepsUnselected ==
    /\ rm_pc = "returned" =>
          /\ rm_outcome.result.success
          /\ ~rm_outcome.saved.none
          /\ rm_outcome.saved.list = UnselectedPages
          /\ Len(rm_outcome.saved.list) >= 1
    /\ (rm_pc \in {"returned", "raised"}
          /\ (SelectedPages = {} \/ SelectedPages = 1..rm_call.page_count)) =>
              /\ rm_pc = "raised"
              /\ rm_outcome.saved.none

\* pages 1 and 2 of three are removed, page 3 remains
C28_Witness ==
    /\ rm_pc = "returned"
    /\ rm_call.page_count = 3
    /\ SelectedPages = {1, 2}
    /\ rm_outcome.saved.list = <<Page("input", 3)>>

-----------------------------------------------------------------------------
(* rotate_pdf_professional of rotate_pdf_converter.py, called on its own   *)

\* the rotations a page of the input may have
PageRotations == {0, 90}

RotationLists == UNION {[1..n -> PageRotations] : n \in 0..MaxDocPages}

\* the page_numbers argument: None or a sorted list without duplicates
PageNumberLists ==
    {NoneValue} \cup {ListValue(sorted(S)) : S \in SUBSET (0..(MaxDocPages + 1))}

InitRotate ==
    /\ ClassIdle
    /\ PipeInit
    /\ IdleExcept("rotate")
    /\ rot_call \in [lib : {"ok", "Exception"}, rotations : RotationLists,
                     rotation_angle : {0, 45, 90, 180, 270},
                     page_numbers : PageNumberLists]
    /\ rot_pc = "call"
    /\ rot_outcome = NoRotation
    /\ rot_saved = NoneValue

\* the document as the script opens it
OpenedDocument(call) ==
    [NoProc EXCEPT !.script = "rotate_pdf_converter", !.primary = call.lib,
                   !.page_count = Len(call.rotations)]

\* page.set_rotation(rotation_angle) on the pages of the set, then save
saved_rotations(rotations, rotated, rotation_angle) ==
    [k \in DOMAIN rotations |-> IF k - 1 \in rotated THEN rotation_angle ELSE rotations[k]]

CallRotatePdfProfessional ==
    /\ rot_pc = "call"
    /\ rot_outcome' = rotate_pdf_professional(OpenedDocument(rot_call),
                                              rot_call.rotation_angle, rot_call.page_numbers)
    /\ rot_saved' = IF rot_outcome'.saved
                    THEN ListValue(saved_rotations(rot_call.rotations, rot_outcome'.rotated,
                                                   rot_call.rotation_angle))
                    ELSE NoneValue
    /\ rot_pc' = "returned"
    /\ UNCHANGED <<rot_call, rotateOther>>

NextRotate == CallRotatePdfProfessional

SpecRotate == InitRotate /\ [][NextRotate]_vars

-----------------------------------------------------------------------------
(* Properties of rotate_pdf_professional (checked under SpecRotate)        *)

RotateReturned == rot_pc = "returned"

TotalPages == Len(rot_call.rotations)

\* the 1-indexed page numbers the call asks for
RequestedPages ==
    IF rot_call.page_numbers.none THEN 1..TotalPages
    ELSE {rot_call.page_numbers.list[k] : k \in DOMAIN rot_call.page_numbers.list}

SomeOutOfRange == \E n \in RequestedPages : n < 1 \/ n > TotalPages

\* C29: rotate_pdf_professional saves an output only when the angle is 90,
\* 180 or 270, the document has a page and every requested page number is
\* in 1..total_pages; the saved document has the angle on exactly the
\* requested pages and the old rotation on every other page.  With a
\* requested page number out of range no page is rotated, nothing is saved
\* and the call returns False.
C29_RotateAllOrNothing ==
    RotateReturned =>
        /\ rot_outcome.ret <=> ~rot_saved.none
        /\ ~rot_saved.none =>
              /\ rot_call.rotation_angle \in {90, 180, 270}
              /\ TotalPages >= 1
              /\ ~SomeOutOfRange
              /\ Len(rot_saved.list) = TotalPages
              /\ \A k \in 1..TotalPages :
                    rot_saved.list[k] = IF k \in RequestedPages
                                        THEN rot_call.rotation_angle
                                        ELSE rot_call.rotations[k]
        /\ SomeOutOfRange =>
              /\ rot_outcome.rotated = {}
              /\ rot_saved.none
              /\ ~rot_outcome.ret

\* page 2 of three is turned to 180, pages 1 and 3 keep 90 and 0
C29_Witness ==
    /\ RotateReturned
    /\ rot_call.rotations = <<90, 90, 0>>
    /\ rot_call.page_numbers = ListValue(<<2>>)
    /\ rot_saved = ListValue(<<90, 180, 0>>)
    /\ rot_outcome.ret

-----------------------------------------------------------------------------
(* edit_pdf_comprehensive of pdf_editor.py                                 *)
(* An edit operation is a record of its type, its page, its colour, its    *)
(* imageData and what the library does with the decoded image ("ok" or     *)
(* the exception it raises).  Coordinates, widths and font sizes are       *)
(* passed to the library unchanged and are left out.  Each drawing of the  *)
(* document is recorded with the input position of its edit.               *)

\* the groups in the order in which the function applies them
GroupOrder_text_first == <<"eraser", "highlight", "text", "shape", "freehand", "image">>

GroupOrder == <<"eraser", "highlight", "shape", "freehand", "text", "image">>

\* the types of each group
GroupTypes(group) ==
    IF group = "shape" THEN {"rectangle", "circle", "line"} ELSE {group}

\* [op for op in edit_operations if op.get('type') ...], as input positions
RECURSIVE group_ops(_, _, _)
group_ops(edit_operations, group, k) ==
    IF k > Len(edit_operations) THEN <<>>
    ELSE (IF edit_operations[k].type \in GroupTypes(group) THEN <<k>> ELSE <<>>)
         \o group_ops(edit_operations, group, k + 1)

HexDigits == "0123456789abcdef"

\* int(s, 16) for a string of hexadecimal digits, ValueError for any other
\* text of the model's colours
hexDigitOf(c) == CHOOSE d \in 0..15 : Ch(HexDigits, d + 1) = lowerChar(c)

int16(s) ==
    IF s # "" /\ \A k \in 1..Len(s) : lowerChar(Ch(s, k)) \in CharsOf(HexDigits)
    THEN [error |-> "",
          val |-> IF Len(s) = 1 THEN hexDigitOf(s)
                  ELSE 16 * hexDigitOf(Ch(s, 1)) + hexDigitOf(Ch(s, 2))]
    ELSE [error |-> "invalid literal for int() with base 16: '" \o s \o "'", val |-> 0]

\* color.lstrip('#')
RECURSIVE lstrip_hash(_)
lstrip_hash(s) == IF s # "" /\ Ch(s, 1) = "#" THEN lstrip_hash(Tail(s)) ELSE s

\* hex_color[i:i+2]
slice2(s, start) ==
    IF start + 1 > Len(s) THEN ""
    ELSE SubSeq(s, start + 1, IF start + 2 <= Len(s) THEN start + 2 ELSE Len(s))

\* the rgb_color of an edit, in 255ths: the default of the group for a
\* colour without '#', the error of the first slice that does not parse
rgb_color(color, default) ==
    IF ~startswith(color, "#") THEN [error |-> "", rgb |-> default]
    ELSE LET hex_color == lstrip_hash(color)
             r == int16(slice2(hex_color, 0))
             g == int16(slice2(hex_color, 2))
             b == int16(slice2(hex_color, 4))
         IN  IF r.error # "" THEN [error |-> r.error, rgb |-> default]
             ELSE IF g.error # "" THEN [error |-> g.error, rgb |-> default]
             ELSE IF b.error # "" THEN [error |-> b.error, rgb |-> default]
             ELSE [error |-> "", rgb |-> <<r.val, g.val, b.val>>]

\* the colour a group draws with when the edit gives none that starts with '#'
DefaultColor(group) ==
    IF group = "highlight" THEN <<255, 255, 0>> ELSE <<0, 0, 0>>

White == <<255, 255, 255>>

\* the image branch: the data URL prefix is cut off, the rest is decoded
\* and inserted; any exception skips the image
image_inserted(edit) ==
    /\ edit.imageData # ""
    /\ startswith(edit.imageData, "data:image") => Len(splitOn(edit.imageData, ",")) > 1
    /\ edit.image = "ok"

Drawing(position, edit, rgb) ==
    [position |-> position, type |-> edit.type, page |-> edit.page, rgb |-> rgb]

\* the most edit operations of a call
MaxOps == 3

Edit(type, page, color, imageData, image) ==
    [type |-> type, page |-> page, color |-> color, imageData |-> imageData,
     image |-> image]

EditOperations ==
    {Edit("eraser", 0, "", "", "ok"),
     Edit("highlight", 0, "#FFFF00", "", "ok"),
     Edit("rectangle", 1, "#0000ff", "", "ok"),
     Edit("line", 0, "red", "", "ok"),
     Edit("freehand", 0, "#GG0000", "", "ok"),
     Edit("freehand", 1, "#FFF", "", "ok"),
     Edit("text", 0, "#000000", "", "ok"),
     Edit("text", 2, "#000000", "", "ok"),
     Edit("image", 0, "", "data:image/png;base64,iVBORw0KGgo=", "ok"),
     Edit("image", 0, "", "data:image/png;base64", "ok"),
     Edit("image", 1, "", "", "ok"),
     Edit("image", 0, "", "iVBORw0KGgo=", "Exception"),
     Edit("stamp", 0, "#000000", "", "ok")}

InitEdit ==
    /\ ClassIdle
    /\ PipeInit
    /\ IdleExcept("edit")
    /\ ed_call \in [lib : {"ok", "ImportError", "Exception"},
                    total_pages : 0..2,
                    edit_operations : UNION {[1..n -> EditOperations] : n \in 0..MaxOps}]
    /\ ed_pc = "open"
    /\ ed_k = 0
    /\ ed_drawn = <<>>
    /\ operations_applied = 0
    /\ ed_outcome = NoOutcome

\* an exception leaves the try block: nothing is saved
EditRaises(outcome) ==
    /\ ed_outcome' = outcome
    /\ ed_pc' = "raised"
    /\ UNCHANGED <<ed_k, ed_drawn, operations_applied>>

\* fitz.open and the page count check
OpenPdf ==
    /\ ed_pc = "open"
    /\ IF ed_call.lib # "ok" THEN EditRaises(LibraryRaises(ed_call.lib, "PDF editing"))
       ELSE IF ed_call.total_pages = 0
       THEN EditRaises(Raises("PDF editing failed: PDF document contains no pages"))
       ELSE /\ ed_pc' = GroupOrder[1]
            /\ ed_k' = 1
            /\ UNCHANGED <<ed_drawn, operations_applied, ed_outcome>>
    /\ UNCHANGED <<ed_call, editOther>>

\* one turn of the loop of a group
ApplyEdit(group) ==
    LET ops == group_ops(ed_call.edit_operations, group, 1)
        position == ops[ed_k]
        edit == ed_call.edit_operations[position]
        color == IF group = "eraser" THEN [error |-> "", rgb |-> White]
                 ELSE IF group = "image" THEN [error |-> "", rgb |-> <<>>]
                 ELSE rgb_color(edit.color, DefaultColor(group))
    IN  /\ ed_pc = group
        /\ ed_k <= Len(ops)
        /\ IF edit.page >= ed_call.total_pages \/ (group = "image" /\ ~image_inserted(edit))
           THEN /\ ed_k' = ed_k + 1
                /\ UNCHANGED <<ed_pc, ed_drawn, operations_applied, ed_outcome>>
           ELSE IF color.error # ""
           THEN EditRaises(Raises("PDF editing failed: " \o color.error))
           ELSE /\ ed_drawn' = Append(ed_drawn, Drawing(position, edit, color.rgb))
                /\ operations_applied' = operations_applied + 1
                /\ ed_k' = ed_k + 1
                /\ UNCHANGED <<ed_pc, ed_outcome>>
        /\ UNCHANGED <<ed_call, editOther>>

ApplyEraser == ApplyEdit("eraser")
ApplyHighlight == ApplyEdit("highlight")
ApplyShape == ApplyEdit("shape")
ApplyFreehand == ApplyEdit("freehand")
ApplyText == ApplyEdit("text")
ApplyImage == ApplyEdit("image")

\* the loop of a group ends: the next group, or the save, begins
EndGroup ==
    /\ \E n \in DOMAIN GroupOrder :
        /\ ed_pc = GroupOrder[n]
        /\ ed_k > Len(group_ops(ed_call.edit_operations, GroupOrder[n], 1))
        /\ ed_pc' = IF n < Len(GroupOrder) THEN GroupOrder[n + 1] ELSE "save"
    /\ ed_k' = 1
    /\ UNCHANGED <<ed_call, ed_drawn, operations_applied, ed_outcome, editOther>>

\* pdf_doc.save and the returned dict
SavePdf ==
    /\ ed_pc = "save"
    /\ ed_outcome' = Returns("PDF edited successfully with " \o str(operations_applied)
                                 \o " operations applied to " \o str(ed_call.total_pages)
                                 \o " pages.",
                             ed_drawn)
    /\ ed_pc' = "returned"
    /\ UNCHANGED <<ed_call, ed_k, ed_drawn, operations_applied, editOther>>

NextEdit ==
    \/ OpenPdf
    \/ ApplyEraser
    \/ ApplyHighlight
    \/ ApplyShape
    \/ ApplyFreehand
    \/ ApplyText
    \/ ApplyImage
    \/ EndGroup
    \/ SavePdf

SpecEdit == InitEdit /\ [][NextEdit]_vars

-----------------------------------------------------------------------------
(* Properties of edit_pdf_comprehensive (checked under SpecEdit)           *)

\* the place of a type in the fixed order: erasers, highlights, shapes,
\* freehand drawings, text, images
TypeRank(type) ==
    IF type = "eraser" THEN 1
    ELSE IF type = "highlight" THEN 2
    ELSE IF type \in {"rectangle", "circle", "line"} THEN 3
    ELSE IF type = "freehand" THEN 4
    ELSE IF type = "text" THEN 5
    ELSE IF type = "image" THEN 6
    ELSE 0

InputOps == ed_call.edit_operations

\* the operation is of unknown type or names a page the document lacks
Skipped(op) == TypeRank(op.type) = 0 \/ op.page >= ed_call.total_pages

\* the drawings are in the order of the types and, within a type group,
\* in input order
DrawnInFixedOrder ==
    \A a, b \in DOMAIN ed_drawn :
        a < b =>
            \/ TypeRank(ed_drawn[a].type) < TypeRank(ed_drawn[b].type)
            \/ /\ TypeRank(ed_drawn[a].type) = TypeRank(ed_drawn[b].type)
               /\ ed_drawn[a].position < ed_drawn[b].position

\* C30: edit_pdf_comprehensive draws the operations in the fixed order of
\* their types whatever their order in the input, in input order within a
\* type; operations_applied is the number of drawings and at most the
\* number of input operations; an operation of unknown type or with
\* page >= total_pages is never drawn and raises nothing: the call returns
\* when every other operation has a colour that parses.
C30_FixedOrderByType ==
    /\ DrawnInFixedOrder
    /\ operations_applied = Len(ed_drawn)
    /\ operations_applied <= Len(InputOps)
    /\ \A d \in DOMAIN ed_drawn :
        /\ ed_drawn[d].position \in DOMAIN InputOps
        /\ ed_drawn[d].type = InputOps[ed_drawn[d].position].type
        /\ ~Skipped(InputOps[ed_drawn[d].position])
    /\ ed_pc = "returned" =>
        /\ ed_outcome.saved = ListValue(ed_drawn)
        /\ \A k \in DOMAIN InputOps :
            (TypeRank(InputOps[k].type) \in 1..5 /\ ~Skipped(InputOps[k])) =>
                \E d \in DOMAIN ed_drawn : ed_drawn[d].position = k
    /\ (ed_pc = "raised" /\ ed_call.lib = "ok" /\ ed_call.total_pages > 0) =>
        \E k \in DOMAIN InputOps :
            /\ ~Skipped(InputOps[k])
            /\ InputOps[k].color \in {"#GG0000", "#FFF"}

\* a text, an unknown operation and an eraser, given in this order: the
\* eraser is drawn first, the unknown operation not at all
C30_Witness ==
    /\ ed_pc = "returned"
    /\ Len(InputOps) = 3
    /\ InputOps[1].type = "text" /\ InputOps[1].page = 0
    /\ InputOps[2].type = "stamp"
    /\ InputOps[3].type = "eraser"
    /\ Len(ed_drawn) = 2
    /\ ed_drawn[1].position = 3
    /\ ed_drawn[2].position = 1
    /\ operations_applied = 2

====
